---------------------------- MODULE Spec2Model ----------------------------
(***************************************************************************)
(* The time march of GRP_solver_ALE_source_Undone                          *)
(* (src/src/finite_volume/GRP_solver_ALE_source.c) as a state machine.     *)
(*                                                                         *)
(* A double is modelled as an extended rational <<n, d>>:                  *)
(*   d > 0           the finite value n/d, in lowest terms;                *)
(*   <<1, 0>>        +INFINITY,   <<-1, 0>>   -INFINITY,                   *)
(*   <<0, 0>>        NaN.                                                  *)
(* The arithmetic is exact on finite values (no rounding) and follows      *)
(* IEEE-754 on the non-finite ones (x/0, inf-inf, 0*inf, comparisons with  *)
(* NaN false, fmin skipping NaN).  Zero carries no sign: 1/0 is +INFINITY. *)
(***************************************************************************)
EXTENDS Integers, Sequences, FiniteSets, TLC

(***************************************************************************)
(* Bounds of the model.                                                    *)
(***************************************************************************)
\* number of cells m = (int)config[3] explored
NumCells == 2
\* largest step cap N = (int)config[5] explored
MaxSteps == 2

(***************************************************************************)
(* Extended rational arithmetic (the C double operations the march uses).  *)
(***************************************************************************)
Abs(i) == IF i < 0 THEN -i ELSE i

Sign(i) == IF i < 0 THEN -1 ELSE IF i > 0 THEN 1 ELSE 0

RECURSIVE GCD(_, _)
GCD(a, b) == IF b = 0 THEN a ELSE GCD(b, a % b)

\* the value n/d in lowest terms with a positive denominator
Norm(n, d) ==
    IF d = 0 THEN <<Sign(n), 0>>
    ELSE LET s == IF d < 0 THEN -1 ELSE 1
             g == GCD(Abs(n), Abs(d))
         IN  <<(s * n) \div g, (s * d) \div g>>

Rat(n, d) == Norm(n, d)
Num(n)    == <<n, 1>>
Zero      == <<0, 1>>
One       == <<1, 1>>
Half      == <<1, 2>>
INFINITY  == <<1, 0>>
NaN       == <<0, 0>>

isfinite(a) == a[2] > 0
isnan(a)    == a[2] = 0 /\ a[1] = 0
isinf(a)    == a[2] = 0 /\ a[1] # 0

Neg(a) == <<-a[1], a[2]>>

\* a + b over the least common denominator
Add(a, b) ==
    IF a[2] = 0 /\ b[2] = 0
    THEN (IF a = b THEN a ELSE NaN)
    ELSE IF a[2] = 0 THEN a
    ELSE IF b[2] = 0 THEN b
    ELSE LET g == GCD(a[2], b[2])
         IN  Norm(a[1] * (b[2] \div g) + b[1] * (a[2] \div g),
                  (a[2] \div g) * b[2])

Sub(a, b) == Add(a, Neg(b))

\* a * b, cancelling across before multiplying; 0 * inf is NaN
Mul(a, b) ==
    IF a[2] = 0 \/ b[2] = 0 THEN <<Sign(a[1]) * Sign(b[1]), 0>>
    ELSE LET g1 == GCD(Abs(a[1]), b[2])
             g2 == GCD(Abs(b[1]), a[2])
         IN  Norm((a[1] \div g1) * (b[1] \div g2),
                  (a[2] \div g2) * (b[2] \div g1))

\* a / b; a finite a over zero is +-INFINITY, 0/0 and inf/inf are NaN
Div(a, b) ==
    IF isnan(a) \/ isnan(b) \/ (a[2] = 0 /\ b[2] = 0) THEN NaN
    ELSE IF b[2] = 0 THEN Zero
    ELSE IF b[1] = 0 THEN <<Sign(a[1]), 0>>
    ELSE Mul(a, <<Sign(b[1]) * b[2], Abs(b[1])>>)

\* a < b as C evaluates it: false as soon as one side is NaN
Lt(a, b) ==
    IF isnan(a) \/ isnan(b) THEN FALSE
    ELSE IF a[2] = 0 /\ b[2] = 0 THEN a[1] < b[1]
    ELSE IF a[2] = 0 THEN a[1] < 0
    ELSE IF b[2] = 0 THEN b[1] > 0
    ELSE LET g == GCD(a[2], b[2])
         IN  a[1] * (b[2] \div g) < b[1] * (a[2] \div g)

Gt(a, b) == Lt(b, a)

\* a <= b as C evaluates it
Le(a, b) == (~isnan(a)) /\ (~isnan(b)) /\ ~Lt(b, a)

fabs(a) == <<Abs(a[1]), a[2]>>

\* fmin returns the other argument when one is NaN
fmin(a, b) ==
    IF isnan(a) THEN b
    ELSE IF isnan(b) THEN a
    ELSE IF Lt(b, a) THEN b ELSE a

\* smallest whole r with r*r >= n/d, which is the smallest with r*r >= ceil(n/d)
CeilSqrt(n, d) ==
    LET q == (n + d - 1) \div d
    IN  CHOOSE r \in 0..q : r * r >= q /\ (r = 0 \/ (r - 1) * (r - 1) < q)

\* sqrt, rounded up to a whole number (the rounding of this model: the march
\* uses the sound speed only inside the wave-speed bound of lines 286-289);
\* sqrt of a negative value is NaN
sqrt(a) ==
    IF isnan(a) \/ a[1] < 0 THEN NaN
    ELSE IF a[2] = 0 THEN INFINITY
    ELSE Num(CeilSqrt(a[1], a[2]))

\* (int)x: truncation toward zero of a finite value
CInt(a) == Sign(a[1]) * (Abs(a[1]) \div a[2])

\* marks memory that malloc returned and nothing has written yet
Uninit == <<0, -1>>

(***************************************************************************)
(* State.                                                                  *)
(***************************************************************************)
VARIABLES
    config,        \* the global configuration array (the slots the march uses)
    loaded,        \* history: the field as the loader delivered it (FV0)
    RHO, U, P, E,  \* CV.RHO/U/P/E: snapshot index -> cell index -> value
    X,             \* X: snapshot index -> interface index -> position
    cpu_time,      \* cpu_time: snapshot index -> seconds
    s_rho, s_u, s_p,            \* slopes of the cells
    RHO_next, U_next, P_next,   \* interface values
    RHO_t, U_t, P_t,            \* interface time derivatives
    F1, F2, F3,                 \* interface fluxes
    ghost,         \* UL,PL,RHOL,HL,SUL,SPL,SRHOL and UR,...,SRHOR
    find_bound,
    tau, nu, h_S_max, time_c, nt, k, j,
    time_k,        \* history: time_c at the head of step k (line 115)
    tic, clock,    \* clock(): the processor time, one tick per action
    cpu_time_sum,
    work,          \* the work buffers: "none", "alloc" or "freed"
    out,           \* what printf has written, in order
    retval,        \* main: the exit status
    data_out,      \* main: whether file_1D_write has written the results
    CV,            \* flux_generator_y: the cell arrays; main: the pointer tables
    bfv_D, bfv_U,  \* flux_generator_y: the boundary records below and above
    ifv_D, ifv_U,  \* flux_generator_y: the two sides of the interface
    i_y,           \* flux_generator_y: i, the row of the interface
    Transversa,
    calls,         \* the calls of functions of other files, in order
    argv,          \* main: the arguments of the run
    fault,         \* main: what the cleanup did that C leaves undefined
    pc             \* position in the function

fieldVars == <<RHO, U, P, E, X>>
slopeVars == <<s_rho, s_u, s_p>>
nextVars  == <<RHO_next, U_next, P_next, RHO_t, U_t, P_t>>
fluxVars  == <<F1, F2, F3>>
stepVars  == <<tau, nu, h_S_max, time_c>>
mainVars  == <<retval, data_out>>
sweepVars == <<CV, bfv_D, bfv_U, ifv_D, ifv_U, i_y, Transversa>>
\* the variables the march does not use
otherVars == <<sweepVars, calls, argv, fault>>
vars == <<config, loaded, RHO, U, P, E, X, cpu_time, s_rho, s_u, s_p,
          RHO_next, U_next, P_next, RHO_t, U_t, P_t, F1, F2, F3,
          ghost, find_bound, tau, nu, h_S_max, time_c, nt, k, j, time_k,
          tic, clock, cpu_time_sum, work, out, retval, data_out,
          CV, bfv_D, bfv_U, ifv_D, ifv_U, i_y, Transversa, calls, argv, fault, pc>>

\* number of snapshots main allocates (N of main: plot times + 1)
NumSnap == MaxSteps + 1

\* main, line 165: m = (int)config[3]
m == CInt(config[3])
Cells  == 0..(m - 1)
Ifaces == 0..m
Snaps  == 0..(NumSnap - 1)

\* the locals the march reads from config at entry (lines 41-49)
t_all == config[1]
eps   == config[4]
N     == CInt(config[5])
gamma == config[6]
CFL   == config[7]
h     == config[10]
bound == CInt(config[17])
alpha == config[41]

(***************************************************************************)
(* minmod limiters (tools, not in src/): as section 4.3 of the spec        *)
(* defines them.                                                           *)
(***************************************************************************)
minmod2(a, b) ==
    IF isnan(a) \/ isnan(b) THEN NaN
    ELSE IF Lt(Zero, a) /\ Lt(Zero, b) THEN fmin(a, b)
    ELSE IF Lt(a, Zero) /\ Lt(b, Zero) THEN Neg(fmin(Neg(a), Neg(b)))
    ELSE Zero

minmod3(a, b, c) ==
    IF isnan(a) \/ isnan(b) \/ isnan(c) THEN NaN
    ELSE IF Lt(Zero, a) /\ Lt(Zero, b) /\ Lt(Zero, c)
         THEN fmin(a, fmin(b, c))
    ELSE IF Lt(a, Zero) /\ Lt(b, Zero) /\ Lt(c, Zero)
         THEN Neg(fmin(Neg(a), fmin(Neg(b), Neg(c))))
    ELSE Zero

(***************************************************************************)
(* linear_GRP_solver_Edir (riemann_solver/, not in src/).  Its interface   *)
(* per section 4.2 of the spec: from the left and right states with their  *)
(* slopes it returns the star state mid = <<rho*, u*, p*>> and its time    *)
(* derivative dire, and a non-physical result reaches the caller as        *)
(* p* < eps or as a non-finite value.  The model computes the star state   *)
(* by the acoustic (linearised) solution of the Riemann problem with unit  *)
(* impedance, in whole units:                                              *)
(*   u* = (u_L + u_R)/2 - (p_R - p_L)/2,                                   *)
(*   p* = (p_L + p_R)/2 - (u_R - u_L)     (negative in a strong expansion),*)
(*   rho* = the density on the upwind side of the contact;                 *)
(* the time derivatives of rho and p have the sign of -u* times the slope, *)
(* with a fixed magnitude, that of u is zero.  The wave functions of 4.1   *)
(* divide by the density and the pressure of their side: with a side in    *)
(* vacuum (zero density or pressure) the result is not finite.  Whole      *)
(* values are returned exactly: one uniform state of whole values with     *)
(* zero slopes comes back unchanged with a zero derivative.                *)
(***************************************************************************)
Avg(a, b) == Mul(Half, Add(a, b))

\* a finite x truncated toward zero to a whole number
Trunc(x) ==
    IF ~isfinite(x) THEN x
    ELSE Num(Sign(x[1]) * (Abs(x[1]) \div x[2]))

SgnNum(x) == IF isnan(x) THEN 0 ELSE Sign(x[1])

StarU(in) == Trunc(Sub(Avg(in.u_L, in.u_R), Mul(Half, Sub(in.p_R, in.p_L))))
StarP(in) == Trunc(Sub(Avg(in.p_L, in.p_R), Sub(in.u_R, in.u_L)))
StarRHO(in, us) ==
    Trunc(IF Lt(Zero, us) THEN in.rho_L
              ELSE IF Lt(us, Zero) THEN in.rho_R
              ELSE Avg(in.rho_L, in.rho_R))

\* the magnitude given to a non-zero time derivative
DireUnit == Num(4)

StarDerivative(us, sL, sR) ==
    Mul(DireUnit, Num(-(SgnNum(us) * SgnNum(Add(sL, sR)))))

\* a side without density or without pressure
Vacuum(in) ==
    in.rho_L = Zero \/ in.rho_R = Zero \/ in.p_L = Zero \/ in.p_R = Zero

\* in = [rho_L, rho_R, s_rho_L, s_rho_R, u_L, u_R, s_u_L, s_u_R, p_L, p_R,
\*       s_p_L, s_p_R]; the result is [mid, dire]
linear_GRP_solver_Edir(in) ==
    IF Vacuum(in)
    THEN [mid |-> <<NaN, NaN, NaN>>, dire |-> <<NaN, NaN, NaN>>]
    ELSE LET us == StarU(in)
         IN  [mid  |-> <<StarRHO(in, us), us, StarP(in)>>,
              dire |-> <<StarDerivative(us, in.s_rho_L, in.s_rho_R),
                         Zero,
                         StarDerivative(us, in.s_p_L, in.s_p_R)>>]

(***************************************************************************)
(* Configurations and initial fields explored.                             *)
(***************************************************************************)
Slots == {1, 3, 4, 5, 6, 7, 10, 16, 17, 41}

\* <<config[1], config[16], config[4]>>: the total time, the fixed step
\* and the zero threshold (INFINITY is "not set").  With a finite total time
\* the step comes from the CFL condition whatever config[16] holds.
RunControls == {<<Rat(1, 8), INFINITY, Zero>>,
                <<Half, INFINITY, Half>>,
                <<Rat(1, 4), Half, Rat(1, 8)>>,
                <<INFINITY, Half, Zero>>,
                <<INFINITY, Half, Rat(1, 8)>>}
\* config[17]: the five known tags and one unknown
BoundaryTags == {-1, -2, -4, -5, -24, -3}

Configs ==
    { (1 :> rc[1] @@ 3 :> Num(NumCells) @@ 4 :> rc[3] @@ 5 :> Num(MaxSteps) @@ 6 :> Num(2) @@ 7 :> Half
       @@ 10 :> One @@ 16 :> rc[2] @@ 17 :> Num(b) @@ 41 :> Rat(3, 2)) :
      rc \in RunControls, b \in BoundaryTags }

\* initial fields: cell index -> <<rho, u, p>>, every cell one of these
CellStates == {<<One, Num(-1), One>>, <<One, One, One>>,
               <<One, Num(-1), Num(2)>>, <<One, One, Num(2)>>,
               <<One, One, Num(4)>>, <<One, Zero, Zero>>, <<One, Zero, One>>}
Fields == [Cells -> CellStates]

\* main, lines 217-220: the grid and the initial energy
X0 == [i \in Ifaces |-> Mul(config[10], Num(i))]
E0(rho, u, p, g) ==
    Add(Mul(Half, Mul(u, u)), Div(Div(p, Sub(g, One)), rho))

UninitCells  == [c \in Cells |-> Uninit]
UninitIfaces == [i \in Ifaces |-> Uninit]

Init ==
    /\ config \in Configs
    /\ \E f \in Fields :
        /\ loaded = f
        /\ RHO = [n \in Snaps |-> IF n = 0 THEN [c \in Cells |-> f[c][1]] ELSE UninitCells]
        /\ U   = [n \in Snaps |-> IF n = 0 THEN [c \in Cells |-> f[c][2]] ELSE UninitCells]
        /\ P   = [n \in Snaps |-> IF n = 0 THEN [c \in Cells |-> f[c][3]] ELSE UninitCells]
        /\ E   = [n \in Snaps |-> IF n = 0
                    THEN [c \in Cells |-> E0(f[c][1], f[c][2], f[c][3], config[6])]
                    ELSE UninitCells]
    /\ X = [n \in Snaps |-> IF n = 0 THEN X0 ELSE UninitIfaces]
    /\ cpu_time = [n \in Snaps |-> Uninit]
    /\ s_rho = UninitCells /\ s_u = UninitCells /\ s_p = UninitCells
    /\ RHO_next = UninitIfaces /\ U_next = UninitIfaces /\ P_next = UninitIfaces
    /\ RHO_t = UninitIfaces /\ U_t = UninitIfaces /\ P_t = UninitIfaces
    /\ F1 = UninitIfaces /\ F2 = UninitIfaces /\ F3 = UninitIfaces
    /\ ghost = [UL |-> Uninit, PL |-> Uninit, RHOL |-> Uninit, HL |-> config[10],
                SUL |-> Zero, SPL |-> Zero, SRHOL |-> Zero,
                UR |-> Uninit, PR |-> Uninit, RHOR |-> Uninit, HR |-> config[10],
                SUR |-> Zero, SPR |-> Zero, SRHOR |-> Zero]
    /\ find_bound = FALSE
    /\ tau = config[16]
    /\ nu = Uninit /\ h_S_max = Uninit
    /\ time_c = Zero /\ time_k = Zero
    /\ nt = 1
    /\ k = 1 /\ j = 0
    /\ tic = 0 /\ clock = 0
    /\ cpu_time_sum = Zero
    /\ work = "none"
    /\ out = <<>>
    /\ retval = 0
    /\ data_out = FALSE
    /\ CV = <<>> /\ bfv_D = <<>> /\ bfv_U = <<>> /\ ifv_D = <<>> /\ ifv_U = <<>>
    /\ i_y = 0 /\ Transversa = FALSE
    /\ calls = <<>> /\ argv = <<>> /\ fault = {}
    /\ pc = "alloc"

Tick == clock' = clock + 1
Say(msg) == out' = Append(out, msg)

(***************************************************************************)
(* Lines 70-104: the work buffers.  calloc zeroes the slopes.  An          *)
(* allocation may fail, and the function then leaves through return_NULL.  *)
(***************************************************************************)
Alloc ==
    /\ pc = "alloc"
    /\ \/ /\ work' = "alloc"
          /\ s_rho' = [c \in Cells |-> Zero]
          /\ s_u'   = [c \in Cells |-> Zero]
          /\ s_p'   = [c \in Cells |-> Zero]
          /\ pc' = "for"
          /\ out' = out
       \/ /\ work' = "partial"
          /\ UNCHANGED slopeVars
          /\ Say(<<"NOT enough memory">>)
          /\ pc' = "return_NULL"
    /\ Tick
    /\ UNCHANGED <<otherVars, mainVars, time_k, config, loaded, fieldVars, cpu_time, nextVars, fluxVars, ghost,
                   find_bound, stepVars, nt, k, j, tic, cpu_time_sum>>

(***************************************************************************)
(* Line 115-118: the loop head.                                            *)
(***************************************************************************)
LoopHead ==
    /\ pc = "for"
    /\ IF k <= N
       THEN /\ h_S_max' = INFINITY
            /\ tic' = clock
            /\ time_k' = time_c
            /\ pc' = "switch"
       ELSE /\ UNCHANGED <<h_S_max, tic, time_k>>
            /\ pc' = "end"
    /\ Tick
    /\ UNCHANGED <<otherVars, mainVars, config, loaded, fieldVars, cpu_time, slopeVars, nextVars, fluxVars,
                   ghost, find_bound, tau, nu, time_c, nt, k, j, cpu_time_sum, work, out>>

(***************************************************************************)
(* Lines 120-176: the boundary switch.                                     *)
(***************************************************************************)
CellWidthLeft  == Sub(X[nt-1][1], X[nt-1][0])
CellWidthRight == Sub(X[nt-1][m], X[nt-1][m-1])

\* lines 127-130 without the test of find_bound of line 122: snapshot 0
\* read again in every step
BoundaryGhost_Reread ==
    [ghost EXCEPT !.UL = U[0][0],     !.UR = U[0][m-1],
                  !.PL = P[0][0],     !.PR = P[0][m-1],
                  !.RHOL = RHO[0][0], !.RHOR = RHO[0][m-1],
                  !.HL = h,           !.HR = h]

\* lines 143-152 taken for every tag: the edge cells copied
BoundaryGhost_AllFree ==
    [ghost EXCEPT !.UL = U[nt-1][0],       !.UR = U[nt-1][m-1],
                  !.PL = P[nt-1][0],       !.PR = P[nt-1][m-1],
                  !.RHOL = RHO[nt-1][0],   !.RHOR = RHO[nt-1][m-1],
                  !.HL = CellWidthLeft,    !.HR = CellWidthRight]

\* lines 137-141 taken for every tag: the edge cells mirrored
BoundaryGhost_AllReflective ==
    [ghost EXCEPT !.UL = Neg(U[nt-1][0]),  !.UR = Neg(U[nt-1][m-1]),
                  !.PL = P[nt-1][0],       !.PR = P[nt-1][m-1],
                  !.RHOL = RHO[nt-1][0],   !.RHOR = RHO[nt-1][m-1],
                  !.HL = CellWidthLeft,    !.HR = CellWidthRight]

BoundaryGhost ==
    CASE bound = -1 ->
           IF find_bound THEN ghost
           ELSE [ghost EXCEPT !.UL = U[0][0],     !.UR = U[0][m-1],
                              !.PL = P[0][0],     !.PR = P[0][m-1],
                              !.RHOL = RHO[0][0], !.RHOR = RHO[0][m-1],
                              !.HL = h,           !.HR = h]
      [] bound = -2 ->
           [ghost EXCEPT !.UL = Neg(U[nt-1][0]),  !.UR = Neg(U[nt-1][m-1]),
                         !.PL = P[nt-1][0],       !.PR = P[nt-1][m-1],
                         !.RHOL = RHO[nt-1][0],   !.RHOR = RHO[nt-1][m-1],
                         !.HL = CellWidthLeft,    !.HR = CellWidthRight]
      [] bound = -4 ->
           [ghost EXCEPT !.UL = U[nt-1][0],       !.UR = U[nt-1][m-1],
                         !.PL = P[nt-1][0],       !.PR = P[nt-1][m-1],
                         !.RHOL = RHO[nt-1][0],   !.RHOR = RHO[nt-1][m-1],
                         !.HL = CellWidthLeft,    !.HR = CellWidthRight]
      [] bound = -5 ->
           [ghost EXCEPT !.UL = U[nt-1][m-1],     !.UR = U[nt-1][0],
                         !.PL = P[nt-1][m-1],     !.PR = P[nt-1][0],
                         !.RHOL = RHO[nt-1][m-1], !.RHOR = RHO[nt-1][0],
                         !.HL = CellWidthRight,   !.HR = CellWidthLeft]
      [] bound = -24 ->
           [ghost EXCEPT !.UL = Neg(U[nt-1][0]),  !.UR = U[nt-1][m-1],
                         !.PL = P[nt-1][0],       !.PR = P[nt-1][m-1],
                         !.RHOL = RHO[nt-1][0],   !.RHOR = RHO[nt-1][m-1],
                         !.HL = CellWidthLeft,    !.HR = CellWidthRight]
      [] OTHER -> ghost

KnownBoundary == bound \in {-1, -2, -4, -5, -24}

BoundarySwitch ==
    /\ pc = "switch"
    /\ IF KnownBoundary
       THEN /\ ghost' = BoundaryGhost
            /\ find_bound' = TRUE
            /\ out' = IF find_bound THEN out ELSE Append(out, <<"boundary", bound>>)
            /\ pc' = "slopes"
       ELSE /\ UNCHANGED <<ghost, find_bound>>
            /\ Say(<<"No suitable boundary coditions!">>)
            /\ pc' = "return_NULL"
    /\ Tick
    /\ UNCHANGED <<otherVars, mainVars, time_k, config, loaded, fieldVars, cpu_time, slopeVars, nextVars, fluxVars,
                   stepVars, nt, k, j, tic, cpu_time_sum, work>>

(***************************************************************************)
(* Lines 179-239: the slopes of the cells, then the slopes of the ghosts.  *)
(***************************************************************************)
\* one-sided difference quotients of v (a row of snapshot nt-1) at cell c,
\* with the ghost values gl, gr beyond the two ends (lines 185-212)
LeftDiff(v, c, gl) ==
    IF c # 0
    THEN Div(Sub(v[c], v[c-1]), Mul(Half, Sub(X[nt-1][c+1], X[nt-1][c-1])))
    ELSE Div(Sub(v[c], gl),
             Mul(Half, Add(Sub(X[nt-1][c+1], X[nt-1][c]), ghost.HL)))

RightDiff(v, c, gr) ==
    IF c < m - 1
    THEN Div(Sub(v[c+1], v[c]), Mul(Half, Sub(X[nt-1][c+2], X[nt-1][c])))
    ELSE Div(Sub(gr, v[c]),
             Mul(Half, Add(Sub(X[nt-1][c+1], X[nt-1][c]), ghost.HR)))

\* lines 215-217 taken in every step
LimitedSlope_FirstRegime(v, c, gl, gr, prev) ==
    minmod2(LeftDiff(v, c, gl), RightDiff(v, c, gr))

\* lines 213-224
LimitedSlope(v, c, gl, gr, prev) ==
    IF k = 1
    THEN minmod2(LeftDiff(v, c, gl), RightDiff(v, c, gr))
    ELSE minmod3(Mul(alpha, LeftDiff(v, c, gl)), Mul(alpha, RightDiff(v, c, gr)),
                 prev[c])

\* lines 226-239, from the new slopes su, sp, srho
GhostSlopes(su, sp, srho) ==
    CASE bound = -2 ->
           [ghost EXCEPT !.SUL = Neg(su[0]), !.SUR = Neg(su[m-1])]
      [] bound = -5 ->
           [ghost EXCEPT !.SUL = su[m-1],     !.SUR = su[0],
                         !.SPL = sp[m-1],     !.SPR = sp[0],
                         !.SRHOL = srho[m-1], !.SRHOR = srho[0]]
      [] bound = -24 ->
           [ghost EXCEPT !.SUL = Neg(su[0])]
      [] OTHER -> ghost

Slopes ==
    /\ pc = "slopes"
    /\ LET su   == [c \in Cells |-> LimitedSlope(U[nt-1], c, ghost.UL, ghost.UR, s_u)]
           sp   == [c \in Cells |-> LimitedSlope(P[nt-1], c, ghost.PL, ghost.PR, s_p)]
           srho == [c \in Cells |-> LimitedSlope(RHO[nt-1], c, ghost.RHOL, ghost.RHOR, s_rho)]
       IN  /\ s_u' = su /\ s_p' = sp /\ s_rho' = srho
           /\ ghost' = GhostSlopes(su, sp, srho)
    /\ j' = 0
    /\ pc' = "interface"
    /\ Tick
    /\ UNCHANGED <<otherVars, mainVars, time_k, config, loaded, fieldVars, cpu_time, nextVars, fluxVars,
                   find_bound, stepVars, nt, k, tic, cpu_time_sum, work, out>>

(***************************************************************************)
(* Lines 241-336: one turn of the interface loop, at interface j.          *)
(***************************************************************************)
\* lines 247-274 and 291-314: what the solver is handed at interface i
Reconstruct(i) ==
    LET hL == IF i # 0 THEN Sub(X[nt-1][i], X[nt-1][i-1]) ELSE ghost.HL
        hR == IF i < m THEN Sub(X[nt-1][i+1], X[nt-1][i]) ELSE ghost.HR
    IN  [h_L   |-> hL,
         h_R   |-> hR,
         rho_L |-> IF i # 0 THEN Add(RHO[nt-1][i-1], Mul(Mul(Half, hL), s_rho[i-1]))
                           ELSE Add(ghost.RHOL, Mul(Mul(Half, hL), ghost.SRHOL)),
         u_L   |-> IF i # 0 THEN Add(U[nt-1][i-1], Mul(Mul(Half, hL), s_u[i-1]))
                           ELSE Add(ghost.UL, Mul(Mul(Half, hL), ghost.SUL)),
         p_L   |-> IF i # 0 THEN Add(P[nt-1][i-1], Mul(Mul(Half, hL), s_p[i-1]))
                           ELSE Add(ghost.PL, Mul(Mul(Half, hL), ghost.SPL)),
         rho_R |-> IF i < m THEN Sub(RHO[nt-1][i], Mul(Mul(Half, hR), s_rho[i]))
                           ELSE Add(ghost.RHOR, Mul(Mul(Half, hR), ghost.SRHOR)),
         u_R   |-> IF i < m THEN Sub(U[nt-1][i], Mul(Mul(Half, hR), s_u[i]))
                           ELSE Add(ghost.UR, Mul(Mul(Half, hR), ghost.SUR)),
         p_R   |-> IF i < m THEN Sub(P[nt-1][i], Mul(Mul(Half, hR), s_p[i]))
                           ELSE Add(ghost.PR, Mul(Mul(Half, hR), ghost.SPR)),
         s_rho_L |-> IF i # 0 THEN s_rho[i-1] ELSE ghost.SRHOL,
         s_u_L   |-> IF i # 0 THEN s_u[i-1]   ELSE ghost.SUL,
         s_p_L   |-> IF i # 0 THEN s_p[i-1]   ELSE ghost.SPL,
         s_rho_R |-> IF i < m THEN s_rho[i] ELSE ghost.SRHOR,
         s_u_R   |-> IF i < m THEN s_u[i]   ELSE ghost.SUR,
         s_p_R   |-> IF i < m THEN s_p[i]   ELSE ghost.SPR]

\* line 275 with the test never taken
ReconstructionNegative_Never(in) == FALSE

\* line 275
ReconstructionNegative(in) ==
    Lt(in.p_L, eps) \/ Lt(in.p_R, eps) \/ Lt(in.rho_L, eps) \/ Lt(in.rho_R, eps)

\* line 280
ReconstructionNonFinite(in) ==
    \/ ~isfinite(in.p_L) \/ ~isfinite(in.p_R) \/ ~isfinite(in.u_L)
    \/ ~isfinite(in.u_R) \/ ~isfinite(in.rho_L) \/ ~isfinite(in.rho_R)

\* lines 286-289
WaveBound(hs, in) ==
    LET c_L == sqrt(Div(Mul(gamma, in.p_L), in.rho_L))
        c_R == sqrt(Div(Mul(gamma, in.p_R), in.rho_R))
    IN  fmin(fmin(hs, Div(in.h_L, Add(fabs(in.u_L), fabs(c_L)))),
             Div(in.h_R, Add(fabs(in.u_R), fabs(c_R))))

\* line 319 and line 324
StarNegative(mid)  == Lt(mid[3], eps)
StarNonFinite(mid) == ~isfinite(mid[2]) \/ ~isfinite(mid[3])

Interface ==
    /\ pc = "interface"
    /\ LET in == Reconstruct(j)
       IN  IF ReconstructionNegative(in)
           THEN /\ Say(<<"Reconstruction <0.0", k, j>>)
                /\ pc' = "return_NULL"
                /\ UNCHANGED <<nextVars, h_S_max, time_c, j>>
           ELSE IF ReconstructionNonFinite(in)
           THEN /\ Say(<<"Reconstruction NAN", k, j>>)
                /\ pc' = "return_NULL"
                /\ UNCHANGED <<nextVars, h_S_max, time_c, j>>
           ELSE LET res == linear_GRP_solver_Edir(in)
                    bad == StarNegative(res.mid)
                    nan == StarNonFinite(res.mid)
                IN
                /\ h_S_max' = WaveBound(h_S_max, in)
                /\ out' = out
                          \o (IF bad THEN <<<<"STAR <0.0", k, j>>>> ELSE <<>>)
                          \o (IF nan THEN <<<<"STAR NAN", k, j>>>> ELSE <<>>)
                /\ time_c' = IF bad \/ nan THEN t_all ELSE time_c
                /\ RHO_next' = [RHO_next EXCEPT ![j] = res.mid[1]]
                /\ U_next'   = [U_next   EXCEPT ![j] = res.mid[2]]
                /\ P_next'   = [P_next   EXCEPT ![j] = res.mid[3]]
                /\ RHO_t'    = [RHO_t    EXCEPT ![j] = res.dire[1]]
                /\ U_t'      = [U_t      EXCEPT ![j] = res.dire[2]]
                /\ P_t'      = [P_t      EXCEPT ![j] = res.dire[3]]
                /\ IF j < m
                   THEN j' = j + 1 /\ pc' = "interface"
                   ELSE j' = j + 1 /\ pc' = "time step"
    /\ Tick
    /\ UNCHANGED <<otherVars, mainVars, time_k, config, loaded, fieldVars, cpu_time, slopeVars, fluxVars, ghost,
                   find_bound, tau, nu, nt, k, tic, cpu_time_sum, work>>

(***************************************************************************)
(* Lines 338-364: the time step, then the flux loop.                       *)
(***************************************************************************)
\* line 340 with the condition always true
UseCFL_Always == TRUE

\* line 340: whether the step comes from the CFL condition
UseCFL == isfinite(t_all) \/ ~isfinite(config[16]) \/ Le(config[16], Zero)

\* lines 342-344
CFLStep ==
    LET t == Mul(CFL, h_S_max)
    IN  IF Gt(Add(time_c, t), Sub(t_all, eps)) THEN Sub(t_all, time_c) ELSE t

NewTau == IF UseCFL THEN CFLStep ELSE tau

\* lines 350-352 and 359-361 both taken before the fluxes
HalfStep_Twice(v, v_t, t, i) ==
    Add(Add(v[i], Mul(Mul(Half, t), v_t[i])), Mul(Mul(Half, t), v_t[i]))

\* lines 350-352: the interface value advanced by half a step
HalfStep(v, v_t, t, i) == Add(v[i], Mul(Mul(Half, t), v_t[i]))

\* lines 359-361 left out: the half-step value stays in *_next
FullStep_Half(v, v_t, t, i) == HalfStep(v, v_t, t, i)

\* lines 359-361: the value the loop leaves in *_next
FullStep(v, v_t, t, i) ==
    Add(HalfStep(v, v_t, t, i), Mul(Mul(Half, t), v_t[i]))

\* lines 354-357
Flux1(r, u, p)  == Mul(r, u)
Flux2(r, u, p)  == Add(Mul(Flux1(r, u, p), u), p)
Flux3(r, u, p)  ==
    Mul(Add(Mul(Div(gamma, Sub(gamma, One)), p),
            Mul(Mul(Half, Flux1(r, u, p)), u)), u)

TimeStep ==
    /\ pc = "time step"
    /\ LET t  == NewTau
           rh == [i \in Ifaces |-> HalfStep(RHO_next, RHO_t, t, i)]
           uh == [i \in Ifaces |-> HalfStep(U_next, U_t, t, i)]
           ph == [i \in Ifaces |-> HalfStep(P_next, P_t, t, i)]
       IN  /\ tau' = t
           /\ nu' = Div(t, h)
           /\ F1' = [i \in Ifaces |-> Flux1(rh[i], uh[i], ph[i])]
           /\ F2' = [i \in Ifaces |-> Flux2(rh[i], uh[i], ph[i])]
           /\ F3' = [i \in Ifaces |-> Flux3(rh[i], uh[i], ph[i])]
           /\ RHO_next' = [i \in Ifaces |-> FullStep(RHO_next, RHO_t, t, i)]
           /\ U_next'   = [i \in Ifaces |-> FullStep(U_next, U_t, t, i)]
           /\ P_next'   = [i \in Ifaces |-> FullStep(P_next, P_t, t, i)]
           /\ X' = [X EXCEPT ![nt] = [i \in Ifaces |-> X[nt-1][i]]]
    /\ j' = 0
    /\ pc' = "update"
    /\ Tick
    /\ UNCHANGED <<otherVars, mainVars, time_k, config, loaded, RHO, U, P, E, cpu_time, slopeVars, RHO_t, U_t, P_t,
                   ghost, find_bound, h_S_max, time_c, nt, k, tic, cpu_time_sum,
                   work, out>>

(***************************************************************************)
(* Lines 367-396: one turn of the update loop, at cell j.                  *)
(***************************************************************************)
\* line 373 with the flux of the left interface left out
NewRHO_OneSided(c) == Sub(RHO[nt-1][c], Mul(nu, F1[c+1]))

\* lines 373-379; mom and ene are the locals Mom and Ene
NewRHO(c) == Sub(RHO[nt-1][c], Mul(nu, Sub(F1[c+1], F1[c])))
NewMom(c) == Sub(Mul(RHO[nt-1][c], U[nt-1][c]), Mul(nu, Sub(F2[c+1], F2[c])))
NewEne(c) == Sub(Mul(RHO[nt-1][c], E[nt-1][c]), Mul(nu, Sub(F3[c+1], F3[c])))
NewU(mom, rho) == Div(mom, rho)
NewE(ene, rho) == Div(ene, rho)
NewP(ene, mom, u) == Mul(Sub(ene, Mul(Mul(Half, mom), u)), Sub(gamma, One))

\* line 381 and line 386
UpdateNegative(p, rho)     == Lt(p, eps) \/ Lt(rho, eps)
UpdateNonFinite(p, u, rho) == ~isfinite(p) \/ ~isfinite(u) \/ ~isfinite(rho)

\* lines 393-395
InterfaceSlope(v, c) == Div(Sub(v[c+1], v[c]), Sub(X[nt][c+1], X[nt][c]))

Update ==
    /\ pc = "update"
    /\ LET rho == NewRHO(j)
           mom == NewMom(j)
           ene == NewEne(j)
           u   == NewU(mom, rho)
           p   == NewP(ene, mom, u)
           bad == UpdateNegative(p, rho)
           nan == UpdateNonFinite(p, u, rho)
       IN  /\ RHO' = [RHO EXCEPT ![nt][j] = rho]
           /\ U'   = [U   EXCEPT ![nt][j] = u]
           /\ E'   = [E   EXCEPT ![nt][j] = NewE(ene, rho)]
           /\ P'   = [P   EXCEPT ![nt][j] = p]
           /\ out' = out
                     \o (IF bad THEN <<<<"Update <0.0", k, j>>>> ELSE <<>>)
                     \o (IF nan THEN <<<<"Update NAN", k, j>>>> ELSE <<>>)
           /\ time_c' = IF bad \/ nan THEN t_all ELSE time_c
    /\ s_u'   = [s_u   EXCEPT ![j] = InterfaceSlope(U_next, j)]
    /\ s_p'   = [s_p   EXCEPT ![j] = InterfaceSlope(P_next, j)]
    /\ s_rho' = [s_rho EXCEPT ![j] = InterfaceSlope(RHO_next, j)]
    /\ j' = j + 1
    /\ pc' = IF j + 1 < m THEN "update" ELSE "time update"
    /\ Tick
    /\ UNCHANGED <<otherVars, mainVars, time_k, config, loaded, X, cpu_time, nextVars, fluxVars, ghost, find_bound,
                   tau, nu, h_S_max, nt, k, tic, cpu_time_sum, work>>

(***************************************************************************)
(* Lines 398-413: the bookkeeping of the step and the exit test.           *)
(***************************************************************************)
TimeIsUp(t) == Gt(t, Sub(t_all, eps)) \/ isinf(t)

TimeUpdate ==
    /\ pc = "time update"
    /\ cpu_time' = [cpu_time EXCEPT ![nt] = Num(clock - tic)]
    /\ cpu_time_sum' = Add(cpu_time_sum, Num(clock - tic))
    /\ time_c' = Add(time_c, tau)
    /\ IF TimeIsUp(Add(time_c, tau))
       THEN /\ config' = [config EXCEPT ![5] = Num(k)]
            /\ pc' = "end"
       ELSE /\ config' = config
            /\ pc' = "fix"
    /\ Tick
    /\ UNCHANGED <<otherVars, mainVars, time_k, loaded, fieldVars, slopeVars, nextVars, fluxVars, ghost, find_bound,
                   tau, nu, h_S_max, nt, k, j, tic, work, out>>

(***************************************************************************)
(* Lines 415-423: the new field becomes the field of the next step.        *)
(***************************************************************************)
FixLocation ==
    /\ pc = "fix"
    /\ RHO' = [RHO EXCEPT ![nt-1] = RHO[nt]]
    /\ U'   = [U   EXCEPT ![nt-1] = U[nt]]
    /\ E'   = [E   EXCEPT ![nt-1] = E[nt]]
    /\ P'   = [P   EXCEPT ![nt-1] = P[nt]]
    /\ k' = k + 1
    /\ j' = m
    /\ pc' = "for"
    /\ Tick
    /\ UNCHANGED <<otherVars, mainVars, time_k, config, loaded, X, cpu_time, slopeVars, nextVars, fluxVars, ghost,
                   find_bound, stepVars, nt, tic, cpu_time_sum, work, out>>

(***************************************************************************)
(* Lines 425-426: the closing messages.                                    *)
(***************************************************************************)
TimeIsUpMessage ==
    /\ pc = "end"
    /\ Say(<<"Time is up at time step", k>>)
    /\ pc' = "return_NULL"
    /\ Tick
    /\ UNCHANGED <<otherVars, mainVars, time_k, config, loaded, fieldVars, cpu_time, slopeVars, nextVars, fluxVars,
                   ghost, find_bound, stepVars, nt, k, j, tic, cpu_time_sum, work>>

(***************************************************************************)
(* Lines 429-454: the work buffers are released and the function returns.  *)
(***************************************************************************)
ReturnNULL ==
    /\ pc = "return_NULL"
    /\ work' = "freed"
    /\ pc' = "returned"
    /\ Tick
    /\ UNCHANGED <<otherVars, mainVars, time_k, config, loaded, fieldVars, cpu_time, slopeVars, nextVars, fluxVars,
                   ghost, find_bound, stepVars, nt, k, j, tic, cpu_time_sum, out>>

(***************************************************************************)
(* main of hydrocode_1D, lines 266-308: after the march has returned the   *)
(* results are written, the storage is released and retval is returned.    *)
(* The march is a void function: it hands main no status.                  *)
(***************************************************************************)
marchVars == <<config, loaded, fieldVars, cpu_time, slopeVars, nextVars, fluxVars,
               ghost, find_bound, stepVars, nt, k, j, time_k, tic, cpu_time_sum, work, out>>

\* line 267
file_1D_write ==
    /\ pc = "returned"
    /\ data_out' = TRUE
    /\ pc' = "main return_NULL"
    /\ Tick
    /\ UNCHANGED <<otherVars, marchVars, retval>>

\* lines 269-307
MainReturn ==
    /\ pc = "main return_NULL"
    /\ pc' = "exit"
    /\ Tick
    /\ UNCHANGED <<otherVars, marchVars, mainVars>>

Next ==
    \/ Alloc
    \/ LoopHead
    \/ BoundarySwitch
    \/ Slopes
    \/ Interface
    \/ TimeStep
    \/ Update
    \/ TimeUpdate
    \/ FixLocation
    \/ TimeIsUpMessage
    \/ ReturnNULL
    \/ file_1D_write
    \/ MainReturn

Spec == Init /\ [][Next]_vars
(***************************************************************************)
(* What the march has printed: the record of what it detected.             *)
(***************************************************************************)
\* lines 321 and 326, lines 383 and 388: the messages of a non-physical
\* star state and of a non-physical update
StarFlags      == {"STAR <0.0", "STAR NAN"}
UpdateFlags    == {"Update <0.0", "Update NAN"}
UpdateNAN      == {"Update NAN"}

\* a message of one of the kinds was printed in step number step
Flagged(kinds, step) ==
    \E i \in 1..Len(out) :
        /\ Len(out[i]) = 3
        /\ out[i][1] \in kinds
        /\ out[i][2] = step

\* a non-physical star state or update was detected in some step so far
AnyFlag == \E step \in 1..k : Flagged(StarFlags \cup UpdateFlags, step)

\* line 425: the closing message was printed
Closed == \E i \in 1..Len(out) : out[i][1] = "Time is up at time step"

\* == of two doubles
Eq(a, b) == ~isnan(a) /\ ~isnan(b) /\ a = b

\* the sum of f over the cells 0..c
RECURSIVE Sum(_, _)
Sum(f, c) == IF c < 0 THEN Zero ELSE Add(Sum(f, c - 1), f[c])

\* the totals of the conserved variables held in snapshot n
TotalMass(n)     == Sum(RHO[n], m - 1)
TotalMomentum(n) == Sum([c \in Cells |-> Mul(RHO[n][c], U[n][c])], m - 1)
TotalEnergy(n)   == Sum([c \in Cells |-> Mul(RHO[n][c], E[n][c])], m - 1)

\* the totals of snapshot nt are those of snapshot nt-1 changed by the two
\* boundary fluxes
Conserved ==
    /\ Eq(TotalMass(nt), Add(TotalMass(nt-1), Mul(nu, Sub(F1[0], F1[m]))))
    /\ Eq(TotalMomentum(nt),
          Add(TotalMomentum(nt-1), Mul(nu, Sub(F2[0], F2[m]))))
    /\ Eq(TotalEnergy(nt), Add(TotalEnergy(nt-1), Mul(nu, Sub(F3[0], F3[m]))))

\* lines 286-289 over the interfaces 0..i: the least h_side/(|u_side|+c_side)
RECURSIVE MinWaveBound(_)
MinWaveBound(i) ==
    WaveBound(IF i = 0 THEN INFINITY ELSE MinWaveBound(i - 1), Reconstruct(i))

\* the time has reached t_all: the test of line 409, or t_all itself
TimeReached == TimeIsUp(time_c) \/ (isfinite(t_all) /\ Le(t_all, time_c))

\* snapshot n has been written
Written(n) == \A c \in Cells : Uninit \notin {RHO[n][c], U[n][c], P[n][c], E[n][c]}

\* lines 277 and 282: the march was left on a failed reconstruction
Aborted ==
    \E i \in 1..Len(out) :
        out[i][1] \in {"Reconstruction <0.0", "Reconstruction NAN"}

\* snapshot 0 holds the loaded field
HoldsLoaded ==
    \A c \in Cells :
        /\ RHO[0][c] = loaded[c][1]
        /\ U[0][c] = loaded[c][2]
        /\ P[0][c] = loaded[c][3]
        /\ E[0][c] = E0(loaded[c][1], loaded[c][2], loaded[c][3], gamma)
(***************************************************************************)
(* C1.  Positivity: after every step that completes without a non-physical *)
(* flag, every cell of the newly written field has RHO > eps and P > eps   *)
(* strictly (a value exactly eps counts as non-physical).                  *)
(***************************************************************************)
C1_Positivity ==
    (pc = "time update" /\ ~Flagged(StarFlags \cup UpdateFlags, k))
        => \A c \in Cells : Gt(RHO[nt][c], eps) /\ Gt(P[nt][c], eps)

C3_CFLBound ==
    (pc = "update" /\ j = 0 /\ UseCFL) => Le(tau, Mul(CFL, MinWaveBound(m)))

(***************************************************************************)
(* C4.  End-time clamp: with a finite t_all the time after every step is   *)
(* at most t_all, flagged steps included, and a march that stops because   *)
(* of time stops with time_c = t_all.                                      *)
(***************************************************************************)
C4_EndTimeClamp ==
    (isfinite(t_all) /\ pc \in {"fix", "end"})
        => /\ Le(time_c, t_all)
           /\ (pc = "end" /\ k <= N /\ ~AnyFlag) => time_c = t_all

(***************************************************************************)
(* C5.  Termination: the march performs at most N steps; no step starts    *)
(* once the time has reached t_all or a non-physical flag has been raised; *)
(* and the loop is left for the closing messages in no other way than by   *)
(* the step cap, the time or a flag.                                       *)
(***************************************************************************)
C5_Termination ==
    [][ /\ (pc = "for" /\ pc' = "switch")
            => (k <= MaxSteps /\ ~TimeReached /\ ~AnyFlag)
        /\ (pc \in {"for", "time update"} /\ pc' = "end")
            => (k > MaxSteps \/ TimeReached' \/ AnyFlag')
      ]_vars
(***************************************************************************)
(* C6.  Snapshot 0 has the loader as its only writer: after any number of  *)
(* steps RHO[0], U[0], P[0] and E[0] still hold the initial field.         *)
(***************************************************************************)
C6_SnapshotZero == HoldsLoaded

(***************************************************************************)
(* C7.  Snapshot recording: nt grows with the plot times reached and each  *)
(* of the snapshots 1..N-1 is produced by the march: when a march without  *)
(* non-physical values has closed, every snapshot from 1 on is written and *)
(* nt has moved on from its first value.                                   *)
(***************************************************************************)
C7_SnapshotRecording ==
    (pc = "returned" /\ Closed /\ ~AnyFlag)
        => /\ \A n \in 1..(NumSnap - 1) : Written(n)
           /\ nt > 1

(***************************************************************************)
(* C8.  No partial update after cancellation: once a non-physical star     *)
(* state or updated value is detected in step k, step k writes no cell     *)
(* value to the snapshots any more.                                        *)
(***************************************************************************)
C8_NoPartialUpdate ==
    [][ Flagged(StarFlags \cup UpdateFlags, k)
            => (RHO' = RHO /\ U' = U /\ P' = P /\ E' = E) ]_vars

(***************************************************************************)
(* C9.  Last good snapshot preserved: from the detection of a non-physical *)
(* update in step k on, the snapshot that holds the field of the end of    *)
(* step k-1 (snapshot nt-1) is not modified until the march returns.       *)
(***************************************************************************)
C9_LastGoodSnapshot ==
    [][ (\E step \in 1..k : Flagged(UpdateFlags, step))
            => /\ RHO'[nt-1] = RHO[nt-1] /\ U'[nt-1] = U[nt-1]
               /\ P'[nt-1] = P[nt-1] /\ E'[nt-1] = E[nt-1] ]_vars

(***************************************************************************)
(* C10.  Sticky cancellation: a step in which a non-physical star state or *)
(* update was detected is the last one, step k+1 never begins, whatever    *)
(* t_all, eps and the kind of time step; and unless a reconstruction fails *)
(* later in that step, its CPU time is recorded and the march returns      *)
(* after the closing message.                                              *)
(***************************************************************************)
C10_StickyCancellation ==
    AnyFlag
        => /\ Flagged(StarFlags \cup UpdateFlags, k)
           /\ pc # "fix"
           /\ (pc \in {"end", "returned"} /\ ~Aborted) => cpu_time[nt] # Uninit
           /\ (pc = "returned" /\ ~Aborted) => Closed

\* a failed reconstruction, a non-physical star state or a non-physical
\* update was reported by the march
Detected == AnyFlag \/ Aborted

(***************************************************************************)
(* C11.  Exit status for calculation errors: a run whose march detected a  *)
(* non-physical state ends with exit status 3, and exit status 0 is        *)
(* returned only when the march finished without any such detection.       *)
(***************************************************************************)
C11_ExitStatus ==
    pc = "exit" => /\ Detected => retval = 3
                   /\ retval = 0 => ~Detected

(***************************************************************************)
(* C12.  Unknown boundary tag: the march fails in its first step before    *)
(* any slope is reconstructed, any interface solved or any cell written,   *)
(* and the run ends with a non-zero exit status and without writing        *)
(* results.                                                                *)
(***************************************************************************)
\* line 174: the march reported the unknown tag
UnknownBoundaryReported ==
    \E i \in 1..Len(out) : out[i] = <<"No suitable boundary coditions!">>

C12_UnknownBoundary ==
    ~KnownBoundary =>
        /\ k = 1
        /\ pc \notin {"slopes", "interface", "time step", "update", "time update", "fix"}
        /\ s_rho \in {UninitCells, [c \in Cells |-> Zero]}
        /\ RHO_next = UninitIfaces
        /\ ~Written(1) /\ HoldsLoaded
        /\ UnknownBoundaryReported => ~data_out
        /\ (UnknownBoundaryReported /\ pc = "exit") => retval # 0

\* the current field at the start of step k: the loaded field in step 1,
\* afterwards what the update of step k-1 wrote
CurrentField(v) == IF k = 1 THEN v[0] ELSE v[nt]

\* the ghost primitives are the cells cl (left) and cr (right) of the
\* current field, the velocity negated where ml, mr say so
GhostFrom(cl, ml, cr, mr) ==
    /\ ghost.UL = (IF ml THEN Neg(CurrentField(U)[cl]) ELSE CurrentField(U)[cl])
    /\ ghost.UR = (IF mr THEN Neg(CurrentField(U)[cr]) ELSE CurrentField(U)[cr])
    /\ ghost.PL = CurrentField(P)[cl]     /\ ghost.PR = CurrentField(P)[cr]
    /\ ghost.RHOL = CurrentField(RHO)[cl] /\ ghost.RHOR = CurrentField(RHO)[cr]

(***************************************************************************)
(* C13.  Ghost values per boundary type: at the start of every step the    *)
(* ghost primitives come from the current field: Reflective (-2) is        *)
(* (-U, P, RHO) of the adjacent edge cell at both ends, Free (-4) a copy   *)
(* of the adjacent edge cell, Periodic (-5) the opposite edge cell, and    *)
(* Reflective+Free (-24) Reflective on the left and Free on the right.     *)
(***************************************************************************)
C13_GhostValues ==
    pc = "slopes" =>
        /\ bound = -2  => GhostFrom(0, TRUE, m - 1, TRUE)
        /\ bound = -4  => GhostFrom(0, FALSE, m - 1, FALSE)
        /\ bound = -5  => GhostFrom(m - 1, FALSE, 0, FALSE)
        /\ bound = -24 => GhostFrom(0, TRUE, m - 1, FALSE)

\* step 2 under Reflective+Free, the field no longer the loaded one and
\* the mirrored velocity different from the copied one
C13_Witness ==
    /\ pc = "slopes" /\ k = 2 /\ bound = -24
    /\ ~HoldsLoaded
    /\ isfinite(U[nt][0]) /\ U[nt][0] # Zero
    /\ ghost.UL = Neg(U[nt][0]) /\ ghost.UR = U[nt][m-1]

\* the boundary switch of the running step has been passed
GhostInUse == pc \in {"slopes", "interface", "time step", "update", "time update", "fix"}

(***************************************************************************)
(* C14.  Initial boundary type is frozen: with tag -1 the ghost values     *)
(* used in every step are the edge-cell values of the field loaded before  *)
(* the first step, not those of a later field, and the ghost slopes are    *)
(* zero in every step.                                                     *)
(***************************************************************************)
C14_InitialFrozen ==
    (bound = -1 /\ GhostInUse) =>
        /\ ghost.RHOL = loaded[0][1]     /\ ghost.UL = loaded[0][2]
        /\ ghost.PL = loaded[0][3]
        /\ ghost.RHOR = loaded[m-1][1]   /\ ghost.UR = loaded[m-1][2]
        /\ ghost.PR = loaded[m-1][3]
        /\ ghost.SUL = Zero /\ ghost.SPL = Zero /\ ghost.SRHOL = Zero
        /\ ghost.SUR = Zero /\ ghost.SPR = Zero /\ ghost.SRHOR = Zero

\* step 2 under tag -1, after step 1 has changed both edge cells
C14_Witness ==
    /\ bound = -1 /\ k = 2 /\ pc = "interface"
    /\ U[nt-1][0] # loaded[0][2] /\ P[nt-1][m-1] # loaded[m-1][3]
    /\ ghost.UL = loaded[0][2] /\ ghost.PR = loaded[m-1][3]

\* the slopes of the running step have been reconstructed and the update
\* has not yet replaced them (lines 393-395)
SlopesInUse == pc \in {"interface", "time step"}

\* the ghost slopes are those of the cells cl (left) and cr (right), the
\* velocity slope negated where ml, mr say so
GhostSlopesFrom(cl, ml, cr, mr) ==
    /\ ghost.SUL = (IF ml THEN Neg(s_u[cl]) ELSE s_u[cl])
    /\ ghost.SUR = (IF mr THEN Neg(s_u[cr]) ELSE s_u[cr])
    /\ ghost.SPL = s_p[cl]     /\ ghost.SPR = s_p[cr]
    /\ ghost.SRHOL = s_rho[cl] /\ ghost.SRHOR = s_rho[cr]

GhostSlopesZero ==
    /\ ghost.SUL = Zero /\ ghost.SPL = Zero /\ ghost.SRHOL = Zero
    /\ ghost.SUR = Zero /\ ghost.SPR = Zero /\ ghost.SRHOR = Zero

Width(c) ==
    IF c < 0 THEN ghost.HL
    ELSE IF c > m - 1 THEN ghost.HR
    ELSE Sub(X[nt-1][c+1], X[nt-1][c])

\* the value of the row v in cell c, the ghost values gl, gr beyond the ends
Neighbour(v, c, gl, gr) == IF c < 0 THEN gl ELSE IF c > m - 1 THEN gr ELSE v[c]

\* the one-sided difference quotient of v between the cells c and c+1,
\* over the distance of their centres
OneSided(v, c, gl, gr) ==
    Div(Sub(Neighbour(v, c + 1, gl, gr), Neighbour(v, c, gl, gr)),
        Mul(Half, Add(Width(c), Width(c + 1))))

\* the slope the claim gives cell c of the row v, from the stored slopes prev
RegimeSlope(v, c, gl, gr, prev) ==
    IF k = 1
    THEN minmod2(OneSided(v, c - 1, gl, gr), OneSided(v, c, gl, gr))
    ELSE minmod3(Mul(alpha, OneSided(v, c - 1, gl, gr)),
                 Mul(alpha, OneSided(v, c, gl, gr)), prev[c])

(***************************************************************************)
(* C16.  Slope reconstruction regimes: in step 1 the slope of every cell   *)
(* and variable is minmod2(s_L, s_R); in every later step it is            *)
(* minmod3(alpha*s_L, alpha*s_R, s_prev), s_prev the slope stored for the  *)
(* cell at the end of the previous step and s_L, s_R the one-sided         *)
(* differences to the neighbours, the ghost value standing in for the      *)
(* missing neighbour of the cells 0 and m-1.                               *)
(***************************************************************************)
C16_SlopeRegimes ==
    [][ pc = "slopes" =>
          \A c \in Cells :
              /\ s_u'[c] = RegimeSlope(U[nt-1], c, ghost.UL, ghost.UR, s_u)
              /\ s_p'[c] = RegimeSlope(P[nt-1], c, ghost.PL, ghost.PR, s_p)
              /\ s_rho'[c] = RegimeSlope(RHO[nt-1], c, ghost.RHOL, ghost.RHOR, s_rho) ]_vars

\* step 2 has reconstructed a slope that is neither zero nor NaN in an edge
\* cell: all three arguments of minmod3 agreed in sign
C16_Witness ==
    /\ pc = "interface" /\ j = 0 /\ k = 2
    /\ \E c \in {0, m - 1} : isfinite(s_u[c]) /\ s_u[c] # Zero

\* the star value mid advanced by half of the step t along dire
Centered(mid, dire, t) == Add(mid, Mul(Mul(Half, t), dire))

\* the fluxes of mass, momentum and energy of the state <<r, u, p>>
MassFlux(r, u, p)     == Mul(r, u)
MomentumFlux(r, u, p) == Add(Mul(MassFlux(r, u, p), u), p)
EnergyFlux(r, u, p)   ==
    Mul(u, Add(Mul(Div(gamma, Sub(gamma, One)), p),
               Div(Mul(MassFlux(r, u, p), u), Num(2))))

(***************************************************************************)
(* C17.  Half-step centering applied once: at every interface the fluxes   *)
(* F1 = rho*u, F2 = F1*u + p, F3 = u*(gamma/(gamma-1)*p + F1*u/2) are      *)
(* evaluated on the star state advanced by exactly half a time step,       *)
(* mid + 0.5*tau*dire, never on a state with a second half-step increment. *)
(***************************************************************************)
C17_HalfStepOnce ==
    [][ pc = "time step" =>
          \A i \in Ifaces :
              LET r == Centered(RHO_next[i], RHO_t[i], tau')
                  u == Centered(U_next[i], U_t[i], tau')
                  p == Centered(P_next[i], P_t[i], tau')
              IN  /\ F1'[i] = MassFlux(r, u, p)
                  /\ F2'[i] = MomentumFlux(r, u, p)
                  /\ F3'[i] = EnergyFlux(r, u, p) ]_vars

\* fluxes of a step with tau > 0 at an interface whose star state moves in
\* time: a second half-step increment would have changed them
C17_Witness ==
    /\ pc = "update" /\ j = 0 /\ Gt(tau, Zero) /\ isfinite(tau)
    /\ \E i \in Ifaces :
          /\ isfinite(P_t[i]) /\ P_t[i] # Zero
          /\ isfinite(F2[i])
          /\ F2[i] # MomentumFlux(RHO_next[i], U_next[i], P_next[i])

\* slot 16 holds a fixed time step
FixedStepSet == isfinite(config[16]) /\ Gt(config[16], Zero)

\* the time step of the running step has been chosen
TauInUse == pc \in {"update", "time update", "fix"}

(***************************************************************************)
(* C18.  Fixed time step: whenever slot 16 is finite and positive, every   *)
(* step uses tau = config[16].  As claimed, whether or not a finite total  *)
(* time is configured:                                                     *)
(***************************************************************************)
C18_FixedStepAlways == (FixedStepSet /\ TauInUse) => tau = config[16]

\* C18, when no finite total time (slot 1) is configured: every step uses
\* tau = config[16]
C18_FixedStep ==
    (FixedStepSet /\ ~isfinite(t_all) /\ TauInUse) => tau = config[16]

\* the second step of a run without total time: the fixed step is used
\* although the CFL condition would give another one
C18_Witness ==
    /\ FixedStepSet /\ ~isfinite(t_all)
    /\ pc = "update" /\ k = 2
    /\ isfinite(h_S_max) /\ tau # Mul(CFL, h_S_max)
    /\ tau = config[16]

(***************************************************************************)
(* C19.  Configuration is immutable after initialisation: once the march   *)
(* has started no slot of config is written; every slot has the same       *)
(* value when the march returns as when it began.                          *)
(***************************************************************************)
C19_ConfigImmutable == [][config' = config]_vars

(***************************************************************************)
(* initialize_2D (file_io/file_2D_in.c): the loader of the two-            *)
(* dimensional initial data.  A data file is given by what                 *)
(* flu_var_count_line finds in it: its number of lines and of columns.     *)
(* Here config holds the slots 3, 13, 14 (INFINITY: not set), loaded is    *)
(* FV0 (for each variable the shape of the array read, or "NULL") and      *)
(* retval the exit status of the process.                                  *)
(***************************************************************************)
MaxLines == 2
MaxColumns == 2

\* lines 120-123: the variables in the order they are read
Variables2D == <<"RHO", "U", "V", "P">>

\* a slot not set, or set to a count
Presets(n) == {INFINITY} \cup {Num(i) : i \in 1..n}

Configs2D ==
    { (3 :> a @@ 13 :> b @@ 14 :> c) :
      a \in Presets(MaxLines * MaxColumns), b \in Presets(MaxColumns),
      c \in Presets(MaxLines) }

\* line 22: <<line, column>> as counted in a data file
Shapes == (0..MaxLines) \X (1..MaxColumns)

\* the variables of the march, not used by the loader
idleVars == <<RHO, U, P, E, X, cpu_time, s_rho, s_u, s_p, RHO_next, U_next, P_next,
              RHO_t, U_t, P_t, F1, F2, F3, ghost, find_bound, tau, nu, h_S_max,
              time_c, nt, k, j, time_k, tic, clock, cpu_time_sum, work, data_out,
              otherVars>>

LoadInit ==
    /\ config \in Configs2D
    /\ loaded = [v \in {Variables2D[i] : i \in 1..Len(Variables2D)} |-> "NULL"]
    /\ out = <<>>
    /\ retval = 0
    /\ pc = Variables2D[1]
    /\ RHO = <<>> /\ U = <<>> /\ P = <<>> /\ E = <<>> /\ X = <<>> /\ cpu_time = <<>>
    /\ s_rho = <<>> /\ s_u = <<>> /\ s_p = <<>>
    /\ RHO_next = <<>> /\ U_next = <<>> /\ P_next = <<>>
    /\ RHO_t = <<>> /\ U_t = <<>> /\ P_t = <<>>
    /\ F1 = <<>> /\ F2 = <<>> /\ F3 = <<>>
    /\ ghost = <<>> /\ find_bound = FALSE
    /\ tau = Zero /\ nu = Zero /\ h_S_max = Zero /\ time_c = Zero /\ time_k = Zero
    /\ nt = 0 /\ k = 0 /\ j = 0 /\ tic = 0 /\ clock = 0
    /\ cpu_time_sum = Zero /\ work = "none" /\ data_out = FALSE
    /\ CV = <<>> /\ bfv_D = <<>> /\ bfv_U = <<>> /\ ifv_D = <<>> /\ ifv_U = <<>>
    /\ i_y = 0 /\ Transversa = FALSE
    /\ calls = <<>> /\ argv = <<>> /\ fault = {}

\* lines 30-35: the slots not yet set take the counts of this file
SizesAfter(line, column) ==
    [config EXCEPT ![3]  = IF isinf(@) THEN Num(line * column) ELSE @,
                   ![13] = IF isinf(@) THEN Num(column) ELSE @,
                   ![14] = IF isinf(@) THEN Num(line) ELSE @]

\* line 36: the comparison is the else branch of the test of config[14]
\* alone, and reads the slots as lines 30-33 left them
InputUnequal(line, column) ==
    /\ ~isinf(config[14])
    /\ \/ line * column # CInt(SizesAfter(line, column)[3])
       \/ column # CInt(SizesAfter(line, column)[13])
       \/ line # CInt(SizesAfter(line, column)[14])

\* the variable read after the one pc names, or the end of the reading
AfterVariable ==
    LET i == CHOOSE n \in 1..Len(Variables2D) : Variables2D[n] = pc
    IN  IF i < Len(Variables2D) THEN Variables2D[i + 1] ELSE "data initialized"

\* exit(status) after the message msg
Exit(status, msg) ==
    /\ Say(msg)
    /\ retval' = status
    /\ pc' = "exit"

\* lines 61-82 with flu_var_init, lines 17-56: one variable is read
STR_FLU_INI ==
    /\ pc \in {Variables2D[i] : i \in 1..Len(Variables2D)}
    /\ \/ /\ Exit(1, <<"Cannot open initial data file", pc>>)
          /\ UNCHANGED <<config, loaded>>
       \/ \E shape \in Shapes :
            LET line == shape[1]
                column == shape[2]
            IN  IF line * column < 1
                THEN /\ Exit(2, <<"Error in counting fluid variables", pc>>)
                     /\ UNCHANGED <<config, loaded>>
                ELSE /\ config' = SizesAfter(line, column)
                     /\ IF InputUnequal(line, column)
                        THEN /\ Exit(2, <<"Input unequal!", pc>>)
                             /\ UNCHANGED loaded
                        ELSE \/ /\ Exit(5, <<"NOT enough memory!", pc>>)
                                /\ UNCHANGED loaded
                             \/ /\ Exit(2, <<"flu_var_read", pc>>)
                                /\ UNCHANGED loaded
                             \/ /\ loaded' = [loaded EXCEPT ![pc] = shape]
                                /\ pc' = AfterVariable
                                /\ UNCHANGED <<out, retval>>
    /\ UNCHANGED idleVars

\* lines 141-142
initialize_2D_return ==
    /\ pc = "data initialized"
    /\ Say(<<"data initialized", CInt(config[14]), CInt(config[13])>>)
    /\ pc' = "initialize_2D returned"
    /\ UNCHANGED <<config, loaded, retval, idleVars>>

LoadNext ==
    \/ STR_FLU_INI
    \/ initialize_2D_return

LoadSpec == LoadInit /\ [][LoadNext]_vars

(***************************************************************************)
(* C20.  2D input agreement: if initialize_2D returns, every loaded        *)
(* variable file has the same number of values, columns and lines, equal   *)
(* to config[3], config[13] and config[14], with config[3] =               *)
(* config[13]*config[14], whatever slots were preset, the first file       *)
(* included.                                                               *)
(***************************************************************************)
C20_InputAgreement ==
    pc = "initialize_2D returned" =>
        /\ \A v \in DOMAIN loaded :
              /\ loaded[v] = <<CInt(config[14]), CInt(config[13])>>
              /\ loaded[v][1] * loaded[v][2] = CInt(config[3])
        /\ config[3] = Mul(config[13], config[14])

(***************************************************************************)
(* flux_generator_y (flux_calc/flux_generator_y.c): the sweep over the     *)
(* y-interfaces of a grid of m columns (j) and n rows (i).  CV is the      *)
(* array of structures: CV[nt] holds the cell values of snapshot nt, and   *)
(* CV[0] (CV-> in the code) the slopes, the fluxes and the interface       *)
(* values.  An array of cells is a function column -> row -> value.        *)
(***************************************************************************)
\* the m and the n of the sweep explored
SweepColumns == 2
SweepRows == 2

\* the columns j, the rows i of the cells and the rows of the interfaces
Columns2D    == 0..(SweepColumns - 1)
Rows2D       == 0..(SweepRows - 1)
Interfaces2D == 0..SweepRows

\* line 10
h_y == config[11]

\* GRP_2D_scheme (not in src/): the interface solver of the sweep.  Per
\* section 4.4 of the spec the y-sweep is the one-dimensional flux with u and
\* v swapped, and the transverse slopes d_* add the cross-derivative terms:
\* the star state is the acoustic solution along y, the interface value is
\* the star state moved by half a step along -(v* d/dy + u* d/dx), both
\* in whole units.  The result is ifv_D with its outputs F_* and *_int set.
GRP_2D_scheme(D, Up, t) ==
    LET vs   == Trunc(Sub(Avg(D.V, Up.V), Mul(Half, Sub(Up.P, D.P))))
        side == IF Lt(Zero, vs) THEN D ELSE Up
        us   == Trunc(side.U)
        Moved(v, t_D, t_U, d_D, d_U) ==
            Add(v, Mul(Mul(Half, t),
                       Trunc(Neg(Add(Mul(vs, Avg(t_D, t_U)), Mul(us, Avg(d_D, d_U)))))))
        rho == Moved(Trunc(side.RHO), D.t_rho, Up.t_rho, D.d_rho, Up.d_rho)
        u   == Moved(us, D.t_u, Up.t_u, D.d_u, Up.d_u)
        v   == Moved(vs, D.t_v, Up.t_v, D.d_v, Up.d_v)
        p   == Moved(Trunc(Sub(Avg(D.P, Up.P), Sub(Up.V, D.V))),
                     D.t_p, Up.t_p, D.d_p, Up.d_p)
        f   == Mul(rho, v)
    IN  [D EXCEPT !.F_rho = f,
                  !.F_u = Mul(f, u),
                  !.F_v = Add(Mul(f, v), p),
                  !.F_e = Mul(v, Add(Mul(Div(config[6], Sub(config[6], One)), p),
                                     Mul(Mul(Half, rho), Add(Mul(u, u), Mul(v, v))))),
                  !.RHO_int = rho, !.U_int = u, !.V_int = v, !.P_int = p]

\* the cell arrays, the boundary records and the options explored: every
\* value is a whole number made from the place and a seed, so that two
\* arrays, two snapshots and two places hold different values
Struct2D(snap, seed) ==
    LET CellArray(base, sd) ==
            [c \in Columns2D |-> [r \in Rows2D |-> Num(base + sd * (1 + c + 2 * r))]]
        FaceArray == [c \in Columns2D |-> [r \in Interfaces2D |-> Uninit]]
    IN
    [RHO |-> CellArray(4 + snap, seed), U |-> CellArray(1 + snap, seed),
     V |-> CellArray(2 + snap, seed),   P |-> CellArray(6 + snap, seed),
     s_rho |-> CellArray(0, seed),      s_u |-> CellArray(1, seed),
     s_v |-> CellArray(0, 2 * seed),    s_p |-> CellArray(-9, seed),
     t_rho |-> CellArray(0, -seed),     t_u |-> CellArray(-1, -seed),
     t_v |-> CellArray(1, 0),           t_p |-> CellArray(0, seed),
     G_rho |-> FaceArray, G_u |-> FaceArray, G_v |-> FaceArray, G_e |-> FaceArray,
     rhoIy |-> FaceArray, uIy |-> FaceArray, vIy |-> FaceArray, pIy |-> FaceArray]

Boundary2D(base, seed) ==
    [c \in Columns2D |->
        [RHO |-> Num(base + 5), U |-> Num(base), V |-> Num(base + c), P |-> Num(base + 7),
         TRHO |-> Num(seed), TU |-> Num(-seed), TV |-> Num(c), TP |-> Num(1),
         SRHO |-> Num(2 + seed), SU |-> Num(-2), SV |-> Num(3 + c), SP |-> Num(-3 - seed)]]

\* line 11: the two sides of the interface as declared
Side2D ==
    [n_x |-> Zero, n_y |-> One,
     t_rho |-> Zero, t_u |-> Zero, t_v |-> Zero, t_p |-> Zero,
     RHO |-> Zero, U |-> Zero, V |-> Zero, P |-> Zero,
     d_rho |-> Zero, d_u |-> Zero, d_v |-> Zero, d_p |-> Zero,
     F_rho |-> Zero, F_u |-> Zero, F_v |-> Zero, F_e |-> Zero,
     RHO_int |-> Zero, U_int |-> Zero, V_int |-> Zero, P_int |-> Zero]

\* the variables of the march and of main, not used by the sweep
sweepIdle == <<loaded, RHO, U, P, E, X, cpu_time, s_rho, s_u, s_p, RHO_next, U_next,
               P_next, RHO_t, U_t, P_t, F1, F2, F3, ghost, find_bound, nu, h_S_max,
               time_c, k, time_k, tic, clock, cpu_time_sum, work, out, retval,
               data_out, argv, fault>>

SweepInit ==
    /\ config = (6 :> Num(2) @@ 11 :> Num(2))
    /\ \E seed \in 0..1, bseed \in 0..1 :
          /\ CV = [snap \in 0..1 |-> Struct2D(snap, seed)]
          /\ bfv_D = Boundary2D(1, bseed)
          /\ bfv_U = Boundary2D(2, bseed)
    /\ nt \in 0..1
    /\ tau \in {One, Num(2)}
    /\ Transversa \in BOOLEAN
    /\ ifv_D = Side2D /\ ifv_U = Side2D
    /\ j = 0 /\ i_y = 0
    /\ calls = <<>>
    /\ pc = "flux_generator_y"
    /\ loaded = <<>>
    /\ RHO = <<>> /\ U = <<>> /\ P = <<>> /\ E = <<>> /\ X = <<>> /\ cpu_time = <<>>
    /\ s_rho = <<>> /\ s_u = <<>> /\ s_p = <<>>
    /\ RHO_next = <<>> /\ U_next = <<>> /\ P_next = <<>>
    /\ RHO_t = <<>> /\ U_t = <<>> /\ P_t = <<>>
    /\ F1 = <<>> /\ F2 = <<>> /\ F3 = <<>>
    /\ ghost = <<>> /\ find_bound = FALSE
    /\ nu = Zero /\ h_S_max = Zero /\ time_c = Zero /\ time_k = Zero
    /\ k = 0 /\ tic = 0 /\ clock = 0
    /\ cpu_time_sum = Zero /\ work = "none" /\ out = <<>>
    /\ retval = 0 /\ data_out = FALSE /\ argv = <<>> /\ fault = {}

\* lines 24-27 and 46-49 with snapshot 0 read whatever nt is
CellValue_Snapshot0(name, c, r) == CV[0][name][c][r]

\* lines 24-27 and 46-49: the cell value read
CellValue(name, c, r) == CV[nt][name][c][r]

\* lines 18-39: the side below interface r of column c
SideBelow(c, r) ==
    IF r # 0
    THEN [ifv_D EXCEPT
            !.t_rho = CV[0].t_rho[c][r-1], !.t_u = CV[0].t_u[c][r-1],
            !.t_v = CV[0].t_v[c][r-1],     !.t_p = CV[0].t_p[c][r-1],
            !.RHO = Add(CellValue("RHO", c, r-1), Mul(Mul(Half, h_y), CV[0].t_rho[c][r-1])),
            !.U   = Add(CellValue("U", c, r-1),   Mul(Mul(Half, h_y), CV[0].t_u[c][r-1])),
            !.V   = Add(CellValue("V", c, r-1),   Mul(Mul(Half, h_y), CV[0].t_v[c][r-1])),
            !.P   = Add(CellValue("P", c, r-1),   Mul(Mul(Half, h_y), CV[0].t_p[c][r-1]))]
    ELSE [ifv_D EXCEPT
            !.t_rho = bfv_D[c].TRHO, !.t_u = bfv_D[c].TU,
            !.t_v = bfv_D[c].TV,     !.t_p = bfv_D[c].TP,
            !.RHO = Add(bfv_D[c].RHO, Mul(Mul(Half, h_y), bfv_D[c].TRHO)),
            !.U   = Add(bfv_D[c].U,   Mul(Mul(Half, h_y), bfv_D[c].TU)),
            !.V   = Add(bfv_D[c].V,   Mul(Mul(Half, h_y), bfv_D[c].TV)),
            !.P   = Add(bfv_D[c].P,   Mul(Mul(Half, h_y), bfv_D[c].TP))]

\* lines 40-61: the side above interface r of column c
SideAbove(c, r) ==
    IF r < SweepRows
    THEN [ifv_U EXCEPT
            !.t_rho = CV[0].t_rho[c][r], !.t_u = CV[0].t_u[c][r],
            !.t_v = CV[0].t_v[c][r],     !.t_p = CV[0].t_p[c][r],
            !.RHO = Sub(CellValue("RHO", c, r), Mul(Mul(Half, h_y), CV[0].t_rho[c][r])),
            !.U   = Sub(CellValue("U", c, r),   Mul(Mul(Half, h_y), CV[0].t_u[c][r])),
            !.V   = Sub(CellValue("V", c, r),   Mul(Mul(Half, h_y), CV[0].t_v[c][r])),
            !.P   = Sub(CellValue("P", c, r),   Mul(Mul(Half, h_y), CV[0].t_p[c][r]))]
    ELSE [ifv_U EXCEPT
            !.t_rho = bfv_U[c].TRHO, !.t_u = bfv_U[c].TU,
            !.t_v = bfv_U[c].TV,     !.t_p = bfv_U[c].TP,
            !.RHO = Sub(bfv_U[c].RHO, Mul(Mul(Half, h_y), bfv_U[c].TRHO)),
            !.U   = Sub(bfv_U[c].U,   Mul(Mul(Half, h_y), bfv_U[c].TU)),
            !.V   = Sub(bfv_U[c].V,   Mul(Mul(Half, h_y), bfv_U[c].TV)),
            !.P   = Sub(bfv_U[c].P,   Mul(Mul(Half, h_y), bfv_U[c].TP))]

\* lines 67-70 and 74-77 taken whatever Transversa is
TransverseBelow_Always(c, r) ==
    IF r # 0
    THEN [d_rho |-> CV[0].s_rho[c][r-1], d_u |-> CV[0].s_u[c][r-1],
          d_v |-> CV[0].s_v[c][r-1],     d_p |-> CV[0].s_p[c][r-1]]
    ELSE [d_rho |-> bfv_D[c].SRHO, d_u |-> bfv_D[c].SU,
          d_v |-> bfv_D[c].SV,     d_p |-> bfv_D[c].SP]

\* lines 63-78 and 94-99: the transverse slopes of the side below
TransverseBelow(c, r) ==
    IF Transversa
    THEN IF r # 0
         THEN [d_rho |-> CV[0].s_rho[c][r-1], d_u |-> CV[0].s_u[c][r-1],
               d_v |-> CV[0].s_v[c][r-1],     d_p |-> CV[0].s_p[c][r-1]]
         ELSE [d_rho |-> bfv_D[c].SRHO, d_u |-> bfv_D[c].SU,
               d_v |-> bfv_D[c].SV,     d_p |-> bfv_D[c].SP]
    ELSE [d_rho |-> Zero, d_u |-> Zero, d_v |-> Zero, d_p |-> Zero]

\* lines 63-64, 79-92 and 100-103: the transverse slopes of the side above
TransverseAbove(c, r) ==
    IF Transversa
    THEN IF r < SweepRows
         THEN [d_rho |-> CV[0].s_rho[c][r], d_u |-> CV[0].s_u[c][r],
               d_v |-> CV[0].s_v[c][r],     d_p |-> CV[0].s_p[c][r]]
         ELSE [d_rho |-> bfv_U[c].SRHO, d_u |-> bfv_U[c].SU,
               d_v |-> bfv_U[c].SV,     d_p |-> bfv_U[c].SP]
    ELSE [d_rho |-> Zero, d_u |-> Zero, d_v |-> Zero, d_p |-> Zero]

\* lines 15-118: one turn of the loops, at interface i_y of column j
flux_generator_y ==
    /\ pc = "flux_generator_y"
    /\ j < SweepColumns
    /\ LET With(side, d) ==
               [side EXCEPT !.d_rho = d.d_rho, !.d_u = d.d_u,
                            !.d_v = d.d_v,     !.d_p = d.d_p]
           below == With(SideBelow(j, i_y), TransverseBelow(j, i_y))
           above == With(SideAbove(j, i_y), TransverseAbove(j, i_y))
           res   == GRP_2D_scheme(below, above, tau)
       IN  /\ ifv_D' = res
           /\ ifv_U' = above
           /\ calls' = Append(calls, [name |-> "GRP_2D_scheme", j |-> j, i |-> i_y,
                                      ifv_D |-> below, ifv_U |-> above, tau |-> tau])
           /\ CV' = [CV EXCEPT ![0].G_rho[j][i_y] = res.F_rho,
                               ![0].G_u[j][i_y]   = res.F_u,
                               ![0].G_v[j][i_y]   = res.F_v,
                               ![0].G_e[j][i_y]   = res.F_e,
                               ![0].rhoIy[j][i_y] = res.RHO_int,
                               ![0].uIy[j][i_y]   = res.U_int,
                               ![0].vIy[j][i_y]   = res.V_int,
                               ![0].pIy[j][i_y]   = res.P_int]
    /\ IF i_y < SweepRows
       THEN i_y' = i_y + 1 /\ j' = j
       ELSE i_y' = 0 /\ j' = j + 1
    /\ UNCHANGED <<config, bfv_D, bfv_U, Transversa, nt, tau, pc, sweepIdle>>

\* line 119
flux_generator_y_return ==
    /\ pc = "flux_generator_y"
    /\ j >= SweepColumns
    /\ pc' = "flux_generator_y returned"
    /\ UNCHANGED <<config, sweepVars, calls, nt, tau, j, sweepIdle>>

SweepNext ==
    \/ flux_generator_y
    \/ flux_generator_y_return

SweepSpec == SweepInit /\ [][SweepNext]_vars

\* the transverse slopes <<d_rho, d_u, d_v, d_p>> a side was handed with
Handed_d(side) == <<side.d_rho, side.d_u, side.d_v, side.d_p>>

\* the x-slopes of the cell in column c and row r; of the boundary record
\* below for r = -1 and of the boundary record above for r = n
XSlopes(c, r) ==
    IF r < 0 THEN <<bfv_D[c].SRHO, bfv_D[c].SU, bfv_D[c].SV, bfv_D[c].SP>>
    ELSE IF r > SweepRows - 1
         THEN <<bfv_U[c].SRHO, bfv_U[c].SU, bfv_U[c].SV, bfv_U[c].SP>>
    ELSE <<CV[0].s_rho[c][r], CV[0].s_u[c][r], CV[0].s_v[c][r], CV[0].s_p[c][r]>>

(***************************************************************************)
(* C21.  Transversa switch in the y-sweep: when Transversa is false the    *)
(* transverse slopes d_rho, d_u, d_v, d_p handed to the interface solver   *)
(* are zero on both sides of every interface; when it is true they are the *)
(* x-slopes of the cell below and of the cell above the interface, the     *)
(* boundary record's slopes standing in at i = 0 and at i = n.             *)
(***************************************************************************)
C21_TransversaSwitch ==
    \A q \in 1..Len(calls) :
        LET call == calls[q]
        IN  IF Transversa
            THEN /\ Handed_d(call.ifv_D) = XSlopes(call.j, call.i - 1)
                 /\ Handed_d(call.ifv_U) = XSlopes(call.j, call.i)
            ELSE /\ Handed_d(call.ifv_D) = <<Zero, Zero, Zero, Zero>>
                 /\ Handed_d(call.ifv_U) = <<Zero, Zero, Zero, Zero>>

\* a finished sweep with Transversa over cells whose x-slopes differ from
\* cell to cell and from the boundary records: the solver was handed those
\* of the boundary records at the lowest and the highest interface and
\* those of the two cells at an inner one
C21_Witness ==
    /\ Transversa
    /\ pc = "flux_generator_y returned"
    /\ \A c \in Columns2D :
          /\ XSlopes(c, -1) # XSlopes(c, 0)
          /\ XSlopes(c, 0) # XSlopes(c, 1)
          /\ XSlopes(c, SweepRows - 1) # XSlopes(c, SweepRows)
          /\ \A r \in -1..SweepRows : \A q \in 1..4 : XSlopes(c, r)[q] # Zero
    /\ \E q0, q1, q2 \in 1..Len(calls) :
          /\ calls[q0].i = 0 /\ calls[q1].i = 1 /\ calls[q2].i = SweepRows
          /\ Handed_d(calls[q0].ifv_D) = XSlopes(calls[q0].j, -1)
          /\ Handed_d(calls[q1].ifv_D) = XSlopes(calls[q1].j, 0)
          /\ Handed_d(calls[q1].ifv_U) = XSlopes(calls[q1].j, 1)
          /\ Handed_d(calls[q2].ifv_U) = XSlopes(calls[q2].j, SweepRows)

(***************************************************************************)
(* main of hydrocode_1D and main of hydrocode_Radial_Lag, from the return  *)
(* of initialize_1D to the exit of the process.  argv holds the program,   *)
(* the order ((int)config[9]) and argv[4]: the frame of the 1D program,    *)
(* atoi(argv[4]) of the radial one.  A pointer table (X, which the radial  *)
(* main calls R, and CV.RHO, CV.U, CV.P, CV.E) is <<>> (NULL) or a         *)
(* function from the snapshot index to what the entry points to: "alloc"   *)
(* (a buffer of its own), "FV0" (the buffer of the loaded data), "NULL" or *)
(* "garbage" (never assigned).  loaded is FV0, calls the solvers called    *)
(* and the buffers handed to free, in order.                               *)
(***************************************************************************)
Arguments ==
    [program : {"hydrocode_1D"}, order : 1..3, argv4 : {"LAG", "EUL", "ALE"}]
    \cup [program : {"hydrocode_Radial_Lag"}, order : 1..3, argv4 : 0..4]

\* the tables in the order they are allocated (1D: lines 171-215, radial:
\* lines 204-257)
TableOrder ==
    IF argv.program = "hydrocode_1D"
    THEN <<"cpu_time", "X", "RHO", "U", "P", "E">>
    ELSE <<"cpu_time", "X", "U", "P", "RHO", "E">>

\* CV_INIT_MEM, line 110: entry 0 of CV.RHO, CV.U, CV.P is the loaded buffer
AliasesFV0(t, r) ==
    argv.program = "hydrocode_1D" /\ t \in {"RHO", "U", "P"} /\ r = 0

\* the allocation points <<table, row>> (row -1: the table itself) at which
\* malloc may return NULL; table 7 stands for no failure
FailPoints ==
    { f \in (1..7) \X (-1..(NumSnap - 1)) :
        /\ f[1] \in {1, 7} => f[2] = -1
        /\ (f[1] < 7 /\ f[2] >= 0) => ~AliasesFV0(TableOrder[f[1]], f[2]) }

\* table number q when the allocation stopped at the point f; xok: the
\* malloc of X (lines 172, 205), made before cpu_time is tested, succeeded
TableAfter(q, f, xok) ==
    LET t == TableOrder[q]
        Row(r) == IF AliasesFV0(t, r) THEN "FV0" ELSE "alloc"
    IN  IF t = "cpu_time" THEN (IF f[1] = 1 THEN "NULL" ELSE "alloc")
        ELSE IF q < f[1] THEN [r \in Snaps |-> Row(r)]
        ELSE IF q > f[1]
             THEN (IF t = "X" /\ f[1] = 1 /\ xok
                   THEN [r \in Snaps |-> "garbage"] ELSE <<>>)
        ELSE IF f[2] = -1 THEN <<>>
        ELSE [r \in Snaps |-> IF r < f[2] THEN Row(r)
                              ELSE IF r = f[2] THEN "NULL" ELSE "garbage"]

\* the variables of the march and of the sweep, not used by main
mainIdle == <<RHO, U, P, E, s_rho, s_u, s_p, RHO_next, U_next, P_next, RHO_t, U_t,
              P_t, F1, F2, F3, ghost, find_bound, tau, nu, h_S_max, time_c, nt, k, j,
              time_k, tic, clock, cpu_time_sum, work, bfv_D, bfv_U, ifv_D, ifv_U, i_y,
              Transversa>>

MainInit ==
    /\ argv \in Arguments
    /\ config = (8 :> INFINITY @@ 9 :> Num(argv.order) @@ 41 :> Rat(3, 2))
    /\ loaded = [RHO |-> "alloc", U |-> "alloc", P |-> "alloc"]
    /\ CV = [RHO |-> <<>>, U |-> <<>>, P |-> <<>>, E |-> <<>>]
    /\ X = <<>> /\ cpu_time = "NULL"
    /\ calls = <<>> /\ fault = {} /\ out = <<>>
    /\ retval = 0 /\ data_out = FALSE
    /\ pc = IF argv.program = "hydrocode_1D" THEN "allocate" ELSE "dimension"
    /\ RHO = <<>> /\ U = <<>> /\ P = <<>> /\ E = <<>>
    /\ s_rho = <<>> /\ s_u = <<>> /\ s_p = <<>>
    /\ RHO_next = <<>> /\ U_next = <<>> /\ P_next = <<>>
    /\ RHO_t = <<>> /\ U_t = <<>> /\ P_t = <<>>
    /\ F1 = <<>> /\ F2 = <<>> /\ F3 = <<>>
    /\ ghost = <<>> /\ find_bound = FALSE
    /\ tau = Zero /\ nu = Zero /\ h_S_max = Zero /\ time_c = Zero /\ time_k = Zero
    /\ nt = 0 /\ k = 0 /\ j = 0 /\ tic = 0 /\ clock = 0
    /\ cpu_time_sum = Zero /\ work = "none"
    /\ bfv_D = <<>> /\ bfv_U = <<>> /\ ifv_D = <<>> /\ ifv_U = <<>>
    /\ i_y = 0 /\ Transversa = FALSE

\* radial main, lines 191-196
main_dimension ==
    /\ pc = "dimension"
    /\ IF argv.argv4 \in {1, 2, 3}
       THEN /\ pc' = "allocate"
            /\ UNCHANGED <<out, retval>>
       ELSE /\ Say(<<"Wrong spatial dimension number!">>)
            /\ retval' = 4
            /\ pc' = "exit"
    /\ UNCHANGED <<argv, config, loaded, CV, X, cpu_time, calls, fault, data_out, mainIdle>>

\* 1D main, lines 169-220; radial main, lines 202-264: the storage of the
\* snapshots.  The radial CV_INIT_FV_RESET_MEM frees the loaded buffer of
\* each variable once its table is complete (lines 144-146).
main_allocate ==
    /\ pc = "allocate"
    /\ \E f \in FailPoints, xok \in BOOLEAN :
          LET Table(t) ==
                  TableAfter(CHOOSE q \in 1..6 : TableOrder[q] = t, f, xok)
              Moved(t) == argv.program = "hydrocode_Radial_Lag"
                          /\ (CHOOSE q \in 1..6 : TableOrder[q] = t) < f[1]
          IN  /\ (f[1] # 1) => xok
              /\ cpu_time' = Table("cpu_time")
              /\ X' = Table("X")
              /\ CV' = [t \in {"RHO", "U", "P", "E"} |-> Table(t)]
              /\ loaded' = [t \in {"RHO", "U", "P"} |->
                               IF Moved(t) THEN "NULL" ELSE "alloc"]
              /\ calls' = calls \o
                    (IF Moved("U") THEN <<<<"free", "FV0", "U">>>> ELSE <<>>) \o
                    (IF Moved("P") THEN <<<<"free", "FV0", "P">>>> ELSE <<>>) \o
                    (IF Moved("RHO") THEN <<<<"free", "FV0", "RHO">>>> ELSE <<>>)
              /\ IF f[1] = 7
                 THEN /\ pc' = "dispatch"
                      /\ UNCHANGED <<out, retval>>
                 ELSE /\ Say(<<"NOT enough memory!", TableOrder[f[1]], f[2]>>)
                      /\ retval' = 5
                      /\ pc' = "return_NULL"
    /\ UNCHANGED <<argv, config, fault, data_out, mainIdle>>

\* 1D main, lines 222-264; radial main, lines 268-279: the solver called
\* for the order and the frame, none for an argument that is not known
SolverCalled ==
    IF argv.program = "hydrocode_Radial_Lag"
    THEN (IF argv.order \in {1, 2} THEN <<"GRP_solver_radial_LAG_source">> ELSE <<>>)
    ELSE IF argv.argv4 = "LAG"
         THEN (CASE argv.order = 1 -> <<"Godunov_solver_LAG_source">>
                 [] argv.order = 2 -> <<"GRP_solver_LAG_source">>
                 [] OTHER -> <<>>)
    ELSE IF argv.argv4 = "EUL"
         THEN (CASE argv.order = 1 -> <<"Godunov_solver_EUL_source">>
                 [] argv.order = 2 -> <<"GRP_solver_EUL_source">>
                 [] OTHER -> <<>>)
    ELSE <<>>

\* lines 224, 241 (1D) and 267, 271 (radial) with slot 41 left alone
ConfigDispatched_AlphaKept ==
    IF argv.program = "hydrocode_Radial_Lag"
    THEN [config EXCEPT ![8] = One]
    ELSE IF argv.argv4 = "LAG" THEN [config EXCEPT ![8] = One]
    ELSE IF argv.argv4 = "EUL" THEN [config EXCEPT ![8] = Zero]
    ELSE config

\* lines 224, 241 (1D) and 267, 271 (radial): what the dispatch writes to
\* config before the solver runs
ConfigDispatched ==
    IF argv.program = "hydrocode_Radial_Lag"
    THEN [config EXCEPT ![8] = One, ![41] = IF argv.order = 1 THEN Zero ELSE @]
    ELSE IF argv.argv4 = "LAG" THEN [config EXCEPT ![8] = One]
    ELSE IF argv.argv4 = "EUL" THEN [config EXCEPT ![8] = Zero]
    ELSE config

\* the dispatch with status 5 for an argument that is not known
main_status_Memory == 5

\* lines 235, 255, 262 (1D) and 277 (radial)
main_status_Argument == 4

\* 1D main, lines 222-264; radial main, lines 266-279
main_dispatch ==
    /\ pc = "dispatch"
    /\ config' = ConfigDispatched
    /\ calls' = IF SolverCalled = <<>> THEN calls ELSE Append(calls, SolverCalled)
    /\ IF SolverCalled # <<>>
       THEN /\ pc' = "write"
            /\ UNCHANGED <<out, retval>>
       ELSE /\ Say(IF argv.program = "hydrocode_1D" /\ argv.argv4 \notin {"LAG", "EUL"}
                   THEN <<"NOT appropriate coordinate framework!", argv.argv4>>
                   ELSE <<"NOT appropriate order of the scheme!", argv.order>>)
            /\ retval' = main_status_Argument
            /\ pc' = "return_NULL"
    /\ UNCHANGED <<argv, loaded, CV, X, cpu_time, fault, data_out, mainIdle>>

\* 1D main, line 267; radial main, lines 281-293
main_write ==
    /\ pc = "write"
    /\ data_out' = TRUE
    /\ pc' = "return_NULL"
    /\ UNCHANGED <<argv, config, loaded, CV, X, cpu_time, calls, fault, out, retval,
                   mainIdle>>

\* the rows the cleanup loop visits: lines 276 (1D) and 301 (radial)
CleanupRows ==
    IF argv.program = "hydrocode_1D" THEN 1..(NumSnap - 1) ELSE 0..(NumSnap - 1)

\* the pointer the cleanup reads at row r of table t
Entry(t, r) == IF t = "X" THEN X[r] ELSE CV[t][r]

\* the <<table, row>> the cleanup hands to free: lines 278-282 and 289
\* (1D), lines 303-307 (radial)
Released ==
    (CleanupRows \X {"E", "RHO", "U", "P", "X"})
    \cup (IF argv.program = "hydrocode_1D" THEN {<<0, "E">>} ELSE {})

\* what the cleanup does that C leaves undefined: an entry read or written
\* through a table that is NULL, a pointer handed to free that was never
\* assigned
CleanupFaults ==
    LET Table(t) == IF t = "X" THEN X ELSE CV[t]
        touched == Released \cup
                   (IF argv.program = "hydrocode_1D"
                    THEN {0} \X {"RHO", "U", "P"} ELSE {})
    IN  { <<"NULL table", e[2]>> : e \in { d \in touched : Table(d[2]) = <<>> } }
        \cup { <<"free of garbage", e[2], e[1]>> :
                 e \in { d \in Released : Table(d[2]) # <<>>
                                          /\ Entry(d[2], d[1]) = "garbage" } }

\* the calls of free with a buffer, row after row: free(NULL) does nothing
RECURSIVE FreeCalls(_)
FreeCalls(r) ==
    IF r > NumSnap - 1 THEN <<>>
    ELSE LET Call(t) ==
                 IF <<r, t>> \in Released
                    /\ (IF t = "X" THEN X ELSE CV[t]) # <<>>
                    /\ Entry(t, r) \in {"alloc", "FV0"}
                 THEN <<<<"free", t, r>>>> ELSE <<>>
         IN  Call("E") \o Call("RHO") \o Call("U") \o Call("P") \o Call("X")
             \o FreeCalls(r + 1)

\* 1D main, lines 269-307; radial main, lines 295-335.  After undefined
\* behaviour the process may have been killed instead of returning.
main_return_NULL ==
    /\ pc = "return_NULL"
    /\ fault' = CleanupFaults
    /\ calls' = calls
          \o (IF argv.program = "hydrocode_1D"
              THEN <<<<"free", "RHO", 0>>, <<"free", "U", 0>>, <<"free", "P", 0>>>>
              ELSE <<>>)
          \o FreeCalls(0)
          \o (IF cpu_time = "alloc" THEN <<<<"free", "cpu_time", -1>>>> ELSE <<>>)
    /\ loaded' = [t \in {"RHO", "U", "P"} |-> "NULL"]
    /\ CV' = [t \in {"RHO", "U", "P", "E"} |-> <<>>]
    /\ X' = <<>> /\ cpu_time' = "NULL"
    /\ \/ pc' = "exit"
       \/ CleanupFaults # {} /\ pc' = "killed"
    /\ UNCHANGED <<argv, config, out, retval, data_out, mainIdle>>

MainNext ==
    \/ main_dimension
    \/ main_allocate
    \/ main_dispatch
    \/ main_write
    \/ main_return_NULL

MainSpec == MainInit /\ [][MainNext]_vars

(***************************************************************************)
(* C22.  Deallocation happens once and safely: on every path through main  *)
(* to its return (normal end, argument error, an allocation failure at any *)
(* allocation point) each snapshot buffer is freed at most once and only   *)
(* after the march has returned, and the cleanup never dereferences a      *)
(* pointer table that was not allocated nor frees an entry that was never  *)
(* assigned.                                                               *)
(***************************************************************************)
C22_SafeDeallocation ==
    /\ fault = {}
    /\ \A a, b \in 1..Len(calls) :
          /\ (a < b /\ calls[a][1] = "free") => calls[a] # calls[b]
          /\ (a < b /\ calls[a][1] = "free" /\ calls[a][2] # "FV0")
                => calls[b][1] = "free"

(***************************************************************************)
(* C23.  Uniform state is a fixed point: if the loaded field is the same   *)
(* state (rho, u, p) in every cell, then after any number of steps every   *)
(* cell still holds exactly that state, provided the interface solver      *)
(* returns the common state with a zero time derivative when its left and  *)
(* right inputs are equal and all slopes are zero.  As claimed, for every  *)
(* supported boundary type:                                                *)
(***************************************************************************)
C23_UniformFixedPointAll ==
    LET s == loaded[0]
        same == [rho_L |-> s[1], rho_R |-> s[1], s_rho_L |-> Zero, s_rho_R |-> Zero,
                 u_L |-> s[2], u_R |-> s[2], s_u_L |-> Zero, s_u_R |-> Zero,
                 p_L |-> s[3], p_R |-> s[3], s_p_L |-> Zero, s_p_R |-> Zero]
    IN  ( /\ \A c \in Cells : loaded[c] = s
          /\ linear_GRP_solver_Edir(same) = [mid |-> s, dire |-> <<Zero, Zero, Zero>>]
          /\ KnownBoundary
          /\ pc \in {"time update", "fix"} )
        => \A c \in Cells : <<RHO[nt][c], U[nt][c], P[nt][c]>> = s

\* C23, for the boundary types Initial, Free and Periodic and, with the
\* velocity zero, for the Reflective ones too: every cell still holds the
\* loaded state
C23_UniformFixedPoint ==
    LET s == loaded[0]
        same == [rho_L |-> s[1], rho_R |-> s[1], s_rho_L |-> Zero, s_rho_R |-> Zero,
                 u_L |-> s[2], u_R |-> s[2], s_u_L |-> Zero, s_u_R |-> Zero,
                 p_L |-> s[3], p_R |-> s[3], s_p_L |-> Zero, s_p_R |-> Zero]
    IN  ( /\ \A c \in Cells : loaded[c] = s
          /\ linear_GRP_solver_Edir(same) = [mid |-> s, dire |-> <<Zero, Zero, Zero>>]
          /\ KnownBoundary
          /\ (bound \in {-2, -24} => s[2] = Zero)
          /\ pc \in {"time update", "fix"} )
        => \A c \in Cells : <<RHO[nt][c], U[nt][c], P[nt][c]>> = s

\* the second step of a uniform moving state under the Periodic type has
\* been written with a positive time step, and every cell holds the loaded
\* state
C23_Witness ==
    /\ \A c \in Cells : loaded[c] = loaded[0]
    /\ loaded[0][2] # Zero
    /\ bound = -5
    /\ pc = "time update" /\ k = 2 /\ Gt(tau, Zero)
    /\ \A c \in Cells : <<RHO[nt][c], U[nt][c], P[nt][c]>> = loaded[0]

(***************************************************************************)
(* The march over a wider grid: with four cells or more the limited slope  *)
(* of an edge cell can be non-zero under the Reflective and the Periodic   *)
(* boundary (the one-sided differences at the edge then agree in sign).    *)
(***************************************************************************)
\* number of cells m = (int)config[3] of the wider grid
WideCells == 4

\* the velocities of the cells of the wider grid
WideVelocities == {Num(-3), Num(-1), One, Num(3)}

\* the fields of the wider grid, cell index -> <<rho, u, p>>: density 1,
\* any velocities, and a pressure that is 4 everywhere or rises by 2 from
\* cell to cell
WideFields ==
    { [c \in Cells |-> <<One, us[c], Num(4 + rise * c)>>] :
        us \in [Cells -> WideVelocities], rise \in {0, 2} }

\* a fixed step without a total time; the Reflective and the Periodic
\* boundary
WideConfigs ==
    { (1 :> INFINITY @@ 3 :> Num(WideCells) @@ 4 :> Zero @@ 5 :> Num(MaxSteps) @@ 6 :> Num(2) @@ 7 :> Half
       @@ 10 :> One @@ 16 :> Half @@ 17 :> Num(b) @@ 41 :> Rat(3, 2)) :
      b \in {-2, -5} }

WideInit ==
    /\ config \in WideConfigs
    /\ \E f \in WideFields :
        /\ loaded = f
        /\ RHO = [n \in Snaps |-> IF n = 0 THEN [c \in Cells |-> f[c][1]] ELSE UninitCells]
        /\ U   = [n \in Snaps |-> IF n = 0 THEN [c \in Cells |-> f[c][2]] ELSE UninitCells]
        /\ P   = [n \in Snaps |-> IF n = 0 THEN [c \in Cells |-> f[c][3]] ELSE UninitCells]
        /\ E   = [n \in Snaps |-> IF n = 0
                    THEN [c \in Cells |-> E0(f[c][1], f[c][2], f[c][3], config[6])]
                    ELSE UninitCells]
    /\ X = [n \in Snaps |-> IF n = 0 THEN X0 ELSE UninitIfaces]
    /\ cpu_time = [n \in Snaps |-> Uninit]
    /\ s_rho = UninitCells /\ s_u = UninitCells /\ s_p = UninitCells
    /\ RHO_next = UninitIfaces /\ U_next = UninitIfaces /\ P_next = UninitIfaces
    /\ RHO_t = UninitIfaces /\ U_t = UninitIfaces /\ P_t = UninitIfaces
    /\ F1 = UninitIfaces /\ F2 = UninitIfaces /\ F3 = UninitIfaces
    /\ ghost = [UL |-> Uninit, PL |-> Uninit, RHOL |-> Uninit, HL |-> config[10],
                SUL |-> Zero, SPL |-> Zero, SRHOL |-> Zero,
                UR |-> Uninit, PR |-> Uninit, RHOR |-> Uninit, HR |-> config[10],
                SUR |-> Zero, SPR |-> Zero, SRHOR |-> Zero]
    /\ find_bound = FALSE
    /\ tau = config[16]
    /\ nu = Uninit /\ h_S_max = Uninit
    /\ time_c = Zero /\ time_k = Zero
    /\ nt = 1
    /\ k = 1 /\ j = 0
    /\ tic = 0 /\ clock = 0
    /\ cpu_time_sum = Zero
    /\ work = "none"
    /\ out = <<>>
    /\ retval = 0
    /\ data_out = FALSE
    /\ CV = <<>> /\ bfv_D = <<>> /\ bfv_U = <<>> /\ ifv_D = <<>> /\ ifv_U = <<>>
    /\ i_y = 0 /\ Transversa = FALSE
    /\ calls = <<>> /\ argv = <<>> /\ fault = {}
    /\ pc = "alloc"

WideSpec == WideInit /\ [][Next]_vars

(***************************************************************************)
(* C24.  Reflective symmetry: with the Reflective boundary and a loaded    *)
(* field symmetric about the centre (rho and p even, u odd), in every step *)
(* the states and slopes handed to the solver at interface 0 are the       *)
(* mirror image of those handed to it at interface m (sides swapped, u and *)
(* the slopes of rho and p negated), and the field written by every step   *)
(* is symmetric again.                                                     *)
(***************************************************************************)
C24_ReflectiveSymmetry ==
    LET Mirror(in) ==
            [h_L |-> in.h_R, h_R |-> in.h_L,
             rho_L |-> in.rho_R, rho_R |-> in.rho_L,
             u_L |-> Neg(in.u_R), u_R |-> Neg(in.u_L),
             p_L |-> in.p_R, p_R |-> in.p_L,
             s_rho_L |-> Neg(in.s_rho_R), s_rho_R |-> Neg(in.s_rho_L),
             s_u_L |-> in.s_u_R, s_u_R |-> in.s_u_L,
             s_p_L |-> Neg(in.s_p_R), s_p_R |-> Neg(in.s_p_L)]
        Symmetric(f) ==
            \A c \in Cells : f[c] = <<f[m-1-c][1], Neg(f[m-1-c][2]), f[m-1-c][3]>>
    IN  (bound = -2 /\ Symmetric(loaded)) =>
            /\ pc \in {"interface", "time step"}
                  => Reconstruct(0) = Mirror(Reconstruct(m))
            /\ pc \in {"time update", "fix"}
                  => Symmetric([c \in Cells |-> <<RHO[nt][c], U[nt][c], P[nt][c]>>])


(***************************************************************************)
(* C26.  Periodic closure: with the Periodic boundary, in every step the   *)
(* left state, the right state and the slopes handed to the solver at      *)
(* interface 0 are those handed to it at interface m, so the fluxes at the *)
(* two ends are equal and the total mass, momentum and energy of the new   *)
(* snapshot are those of the old one.                                      *)
(***************************************************************************)
C26_PeriodicClosure ==
    bound = -5 =>
        /\ pc \in {"interface", "time step"} => Reconstruct(0) = Reconstruct(m)
        /\ pc = "update" => <<F1[0], F2[0], F3[0]>> = <<F1[m], F2[m], F3[m]>>
        /\ (pc = "time update" /\ ~Flagged(UpdateNAN, k))
              => /\ Eq(TotalMass(nt), TotalMass(nt-1))
                 /\ Eq(TotalMomentum(nt), TotalMomentum(nt-1))
                 /\ Eq(TotalEnergy(nt), TotalEnergy(nt-1))


(***************************************************************************)
(* C25.  Argument errors: in the 1D main an order other than 1 or 2, or a  *)
(* frame other than LAG or EUL, never has a solver called nor the result   *)
(* files written, and the run that found the memory for its snapshots      *)
(* exits with status 4; in the radial main a dimension other than 1, 2, 3  *)
(* exits with status 4 from the test of the dimension, with no snapshot    *)
(* storage allocated.                                                      *)
(***************************************************************************)
C25_ArgumentErrors ==
    LET Solvers == { q \in 1..Len(calls) : calls[q][1] # "free" }
        OutOfMemory == \E q \in 1..Len(out) : out[q][1] = "NOT enough memory!"
        Ended == pc \in {"exit", "killed"}
    IN  /\ ( /\ argv.program = "hydrocode_1D"
             /\ argv.order \notin {1, 2} \/ argv.argv4 \notin {"LAG", "EUL"} )
           => /\ Solvers = {}
              /\ ~data_out
              /\ (Ended /\ ~OutOfMemory) => retval = 4
        /\ ( /\ argv.program = "hydrocode_Radial_Lag"
             /\ argv.argv4 \notin {1, 2, 3} )
           => /\ pc \in {"dimension", "exit"}
              /\ pc = "exit" => retval = 4
              /\ cpu_time = "NULL" /\ X = <<>>
              /\ \A t \in {"RHO", "U", "P", "E"} : CV[t] = <<>>
              /\ calls = <<>> /\ ~data_out

\* the 1D run with order 3 has found its memory and has ended with status 4
\* after the message of the dispatch
C25_Witness ==
    /\ argv.program = "hydrocode_1D" /\ argv.order = 3 /\ argv.argv4 = "LAG"
    /\ pc = "exit" /\ retval = 4
    /\ out = <<<<"NOT appropriate order of the scheme!", 3>>>>
    /\ \E q \in 1..Len(calls) : calls[q] = <<"free", "E", 0>>


(***************************************************************************)
(* C27.  Radial order dispatch: in the radial main the orders 1 and 2 both *)
(* call GRP_solver_radial_LAG_source, exactly once; order 1 has set slot   *)
(* 41 of config to 0 before the call, order 2 leaves slot 41 as it was     *)
(* configured; with any other order no solver is called and the exit       *)
(* status is 4.                                                            *)
(***************************************************************************)
C27_RadialDispatch ==
    LET Solvers == SelectSeq(calls, LAMBDA c : c[1] # "free")
        Dispatched == pc \in {"write", "return_NULL", "exit", "killed"}
                      /\ \A q \in 1..Len(out) : out[q][1] # "NOT enough memory!"
    IN  (argv.program = "hydrocode_Radial_Lag" /\ argv.argv4 \in {1, 2, 3} /\ Dispatched) =>
            /\ argv.order \in {1, 2} =>
                  /\ Solvers = <<<<"GRP_solver_radial_LAG_source">>>>
                  /\ config[41] = IF argv.order = 1 THEN Zero ELSE Rat(3, 2)
            /\ argv.order \notin {1, 2} =>
                  /\ Solvers = <<>>
                  /\ pc \in {"exit", "killed"} => retval = 4

\* the radial run of order 1 has ended after its one solver call, with slot
\* 41 at zero
C27_Witness ==
    /\ argv.program = "hydrocode_Radial_Lag" /\ argv.order = 1
    /\ pc = "exit" /\ retval = 0 /\ data_out
    /\ config[41] = Zero
    /\ \E q \in 1..Len(calls) : calls[q] = <<"GRP_solver_radial_LAG_source">>


(***************************************************************************)
(* C28.  Frame and ordering of the y-sweep: every step of                  *)
(* flux_generator_y leaves every cell value, every slope and both boundary *)
(* records as they were and changes, of the arrays, at most the entries    *)
(* G_rho, G_u, G_v, G_e, rhoIy, uIy, vIy, pIy of the interface it is at;   *)
(* the q-th call of the solver is at interface (q-1) mod (n+1) of column   *)
(* (q-1) div (n+1), with sides made of the cell values of snapshot nt, of  *)
(* the slopes and of the boundary records; and the sweep returns after     *)
(* m*(n+1) calls.                                                          *)
(***************************************************************************)
C28_SweepFrame ==
    [][ LET Faces == {"G_rho", "G_u", "G_v", "G_e", "rhoIy", "uIy", "vIy", "pIy"}
            Kept  == (DOMAIN CV[0]) \ Faces
            Side(c, r, sign) ==
                LET Part(v, t) == Add(CV[nt][v][c][r],
                                      Mul(Num(sign), Mul(Mul(Half, config[11]), CV[0][t][c][r])))
                IN  <<Part("RHO", "t_rho"), Part("U", "t_u"), Part("V", "t_v"), Part("P", "t_p")>>
            Edge(b, sign) ==
                LET Part(v, t) == Add(b[v], Mul(Num(sign), Mul(Mul(Half, config[11]), b[t])))
                IN  <<Part("RHO", "TRHO"), Part("U", "TU"), Part("V", "TV"), Part("P", "TP")>>
            Values(s) == <<s.RHO, s.U, s.V, s.P>>
        IN  /\ CV'[1] = CV[1]
            /\ \A name \in Kept : CV'[0][name] = CV[0][name]
            /\ \A name \in Faces : \A c \in Columns2D : \A r \in Interfaces2D :
                  <<c, r>> # <<j, i_y>> => CV'[0][name][c][r] = CV[0][name][c][r]
            /\ bfv_D' = bfv_D /\ bfv_U' = bfv_U
            /\ calls' # calls =>
                  /\ Len(calls') = Len(calls) + 1
                  /\ LET q == Len(calls')
                         call == calls'[q]
                     IN  /\ call.j = (q - 1) \div (SweepRows + 1)
                         /\ call.i = (q - 1) % (SweepRows + 1)
                         /\ Values(call.ifv_D) =
                               IF call.i = 0 THEN Edge(bfv_D[call.j], 1)
                               ELSE Side(call.j, call.i - 1, 1)
                         /\ Values(call.ifv_U) =
                               IF call.i = SweepRows THEN Edge(bfv_U[call.j], -1)
                               ELSE Side(call.j, call.i, -1)
                         /\ \A name \in Faces :
                               CV'[0][name][call.j][call.i] # Uninit
            /\ pc' # pc => Len(calls) = SweepColumns * (SweepRows + 1)
      ]_vars

\* a sweep over snapshot 1, whose cell values differ from those of snapshot
\* 0, has returned: every interface holds a flux and the cells are as before
C28_Witness ==
    /\ pc = "flux_generator_y returned"
    /\ nt = 1
    /\ CV[1].RHO # CV[0].RHO /\ CV[1].P # CV[0].P
    /\ Len(calls) = SweepColumns * (SweepRows + 1)
    /\ \A c \in Columns2D : \A r \in Interfaces2D : CV[0].G_rho[c][r] # Uninit
    /\ \E seed \in 0..1 : CV[1].RHO = Struct2D(1, seed).RHO


(***************************************************************************)
(* C29.  A failed reconstruction aborts without effect on the field.  The  *)
(* steps of step k up to the interface loop write no cell of the snapshot  *)
(* storage, no CPU time and no slot of config; at an interface whose       *)
(* reconstructed state has rho or p below eps or a non-finite value the    *)
(* march goes to return_NULL at once, without a solver call; and           *)
(* return_NULL releases the work buffers and returns, writing nothing.     *)
(* TimeKept is what holds of the time when the march leaves.               *)
(***************************************************************************)
C29_AbortStep(TimeKept) ==
    LET in == Reconstruct(j)
        Fails ==
            \/ Lt(in.p_L, eps) \/ Lt(in.p_R, eps) \/ Lt(in.rho_L, eps) \/ Lt(in.rho_R, eps)
            \/ \E v \in {in.p_L, in.p_R, in.u_L, in.u_R, in.rho_L, in.rho_R} : v[2] <= 0
    IN  /\ pc \in {"switch", "slopes", "interface"}
              => UNCHANGED <<fieldVars, cpu_time, config>>
        /\ (pc = "interface" /\ Fails)
              => /\ pc' = "return_NULL"
                 /\ UNCHANGED <<nextVars, fluxVars, time_c>>
                 /\ TimeKept
        /\ (pc = "interface" /\ pc' = "return_NULL") => Fails
        /\ pc = "return_NULL"
              => /\ work' = "freed" /\ pc' = "returned"
                 /\ UNCHANGED <<fieldVars, cpu_time, config, time_c>>

C30_PreviousSlope ==
    [][ LET Advanced(mid, dire) == Add(mid, Mul(tau', dire))
            Stored(v) == Div(Sub(v[j+1], v[j]), Sub(X[nt][j+1], X[nt][j]))
            Third(v, c, gl, gr, prev) ==
                minmod3(Mul(alpha, OneSided(v, c - 1, gl, gr)),
                        Mul(alpha, OneSided(v, c, gl, gr)), prev)
        IN  /\ pc = "time step" =>
                  \A i \in Ifaces :
                      /\ RHO_next'[i] = Advanced(RHO_next[i], RHO_t[i])
                      /\ U_next'[i] = Advanced(U_next[i], U_t[i])
                      /\ P_next'[i] = Advanced(P_next[i], P_t[i])
            /\ pc = "update" =>
                  /\ s_rho'[j] = Stored(RHO_next)
                  /\ s_u'[j] = Stored(U_next)
                  /\ s_p'[j] = Stored(P_next)
                  /\ \A c \in Cells \ {j} :
                        <<s_rho'[c], s_u'[c], s_p'[c]>> = <<s_rho[c], s_u[c], s_p[c]>>
                  /\ UNCHANGED <<nextVars, X>>
            /\ pc \in {"time update", "fix", "for", "switch"} => UNCHANGED slopeVars
            /\ (pc = "slopes" /\ k > 1) =>
                  \A c \in Cells :
                      /\ s_rho'[c] = Third(RHO[nt-1], c, ghost.RHOL, ghost.RHOR, s_rho[c])
                      /\ s_u'[c] = Third(U[nt-1], c, ghost.UL, ghost.UR, s_u[c])
                      /\ s_p'[c] = Third(P[nt-1], c, ghost.PL, ghost.PR, s_p[c])
      ]_vars

\* step 2 has reconstructed its slopes: in some cell the slope of the
\* velocity is the one step 1 stored, not zero (the third argument of
\* minmod3 was the least), and the slope step 1 stored for the pressure of
\* some cell was made of interface values moved by a full step with
\* different time derivatives at the two ends (the half-step values give
\* another slope)
C30_Witness ==
    LET Stored(v, c) == Div(Sub(v[c+1], v[c]), Sub(X[nt][c+1], X[nt][c]))
    IN  /\ pc = "interface" /\ j = 0 /\ k = 2
        /\ Gt(tau, Zero) /\ isfinite(tau)
        /\ \E c \in Cells :
              /\ isfinite(Stored(U_next, c)) /\ Stored(U_next, c) # Zero
              /\ s_u[c] = Stored(U_next, c)
        /\ \E c \in Cells :
              /\ isfinite(Stored(P_next, c)) /\ Stored(P_next, c) # Zero
              /\ isfinite(P_t[c]) /\ isfinite(P_t[c+1]) /\ P_t[c] # P_t[c+1]

=============================================================================
